---- MODULE Spec2Model ----
(***************************************************************************)
(* Client side of the Nix store-daemon worker protocol                     *)
(* (src/libstore/remote-store.cc): the connection pool and its leases, the *)
(* greeting, the stderr sub-protocol and the per-operation dispatch.       *)
(***************************************************************************)
EXTENDS Integers, Sequences, FiniteSets, TLC

VARIABLES
    idle,        \* Pool::State::idle, a vector of connection ids (back = last)
    inUse,       \* Pool::State::inUse
    max,         \* Pool::State::max (the capacity)
    failed,      \* RemoteStore::failed
    conns,       \* the Connection objects, by id
    now,         \* std::chrono::steady_clock::now(), in seconds
    daemon,      \* what the daemon at the other end advertises
    stack,       \* per thread: the call stack of store operations
    exc,         \* per thread: the exception in flight
    ev,          \* how the operation that ended in the last step ended (else NoEv)
    cache,       \* Store::state.pathInfoCache, the paths it holds
    ps,          \* one run of Connection::processStderr over a daemon stream
    gr,          \* one run of initConnection / setOptions against a daemon script
    fu,          \* one run of ConnectionHandle::withFramedSink
    ux,          \* one call of UDSRemoteStore::openConnection
    rt,          \* one write and read back of a path set or path-CA map
    qv,          \* one run of queryValidPaths against a daemon
    rq           \* one call of addToStore or buildPaths on a leased connection

vars == <<idle, inUse, max, failed, conns, now, daemon, stack, exc, ev, cache,
          ps, gr, fu, ux, rt, qv, rq>>

poolVars == <<idle, inUse, max, failed, conns, now, daemon, stack, exc, ev, cache>>

\* The runs of single functions, which the store operations leave alone.
side == <<ps, gr, fu, ux, rt, qv, rq>>

(***************************************************************************)
(* Bounds of the model.                                                    *)
(***************************************************************************)
MaxMsgs == 3
MaxConns == 2
MaxTime == 1
MaxTodo == 1
NThreads == 2
MaxCapacity == 2
MaxConnectionAge == 1

(***************************************************************************)
(* Wire constants (worker-protocol.hh).                                    *)
(***************************************************************************)
STDERR_NEXT == 1869376871
STDERR_READ == 1684108385
STDERR_WRITE == 1684108310
STDERR_LAST == 1634497651
STDERR_ERROR == 1668838512
STDERR_START_ACTIVITY == 1398035028
STDERR_STOP_ACTIVITY == 1398034256
STDERR_RESULT == 1381190740
UNKNOWN_TAG == 7

(***************************************************************************)
(* The daemon side of the stderr sub-protocol: a message and its encoding  *)
(* as 64-bit words.  A string of n bytes is its length followed by         *)
(* ceil(n/8) words of padded payload.                                      *)
(***************************************************************************)
Word == 0

RECURSIVE Pad(_)
Pad(n) == IF n <= 0 THEN <<>> ELSE <<Word>> \o Pad(n - 8)

EncString(len) == <<len>> \o Pad(len)

RECURSIVE EncFields(_)
EncFields(fs) ==
    IF fs = <<>> THEN <<>>
    ELSE (IF Head(fs).type = 1 THEN <<1>> \o EncString(Head(fs).len)
          ELSE <<Head(fs).type, Word>>) \o EncFields(Tail(fs))

EncMsg(m) ==
    CASE m.tag = STDERR_WRITE -> <<STDERR_WRITE>> \o EncString(m.len)
      [] m.tag = STDERR_READ -> <<STDERR_READ, m.len>>
      [] m.tag = STDERR_ERROR -> <<STDERR_ERROR>> \o EncString(m.len) \o <<m.status>>
      [] m.tag = STDERR_NEXT -> <<STDERR_NEXT>> \o EncString(m.len)
      [] m.tag = STDERR_START_ACTIVITY ->
            <<STDERR_START_ACTIVITY, Word, Word, Word>> \o EncString(m.len)
                \o <<Len(m.fields)>> \o EncFields(m.fields) \o <<Word>>
      [] m.tag = STDERR_STOP_ACTIVITY -> <<STDERR_STOP_ACTIVITY, Word>>
      [] m.tag = STDERR_RESULT ->
            <<STDERR_RESULT, Word, Word, Len(m.fields)>> \o EncFields(m.fields)
      [] m.tag = STDERR_LAST -> <<STDERR_LAST>>
      [] OTHER -> <<m.tag>>

RECURSIVE EncMsgs(_)
EncMsgs(ms) == IF ms = <<>> THEN <<>> ELSE EncMsg(Head(ms)) \o EncMsgs(Tail(ms))

Msg(tag, len, status, fields) ==
    [tag |-> tag, len |-> len, status |-> status, fields |-> fields]

(***************************************************************************)
(* Source side primitives (serialise.hh): a read at position pos of the    *)
(* word stream s either succeeds and advances, or hits end of file.        *)
(***************************************************************************)
readNum(s, pos) ==
    IF pos < Len(s) THEN [st |-> "ok", pos |-> pos + 1, v |-> s[pos + 1]]
    ELSE [st |-> "eof", pos |-> Len(s), v |-> 0]

readString(s, pos) ==
    LET n == readNum(s, pos) IN
    IF n.st # "ok" THEN n
    ELSE LET words == (n.v + 7) \div 8 IN
         IF n.pos + words <= Len(s)
         THEN [st |-> "ok", pos |-> n.pos + words, v |-> n.v]
         ELSE [st |-> "eof", pos |-> Len(s), v |-> 0]

RECURSIVE readFieldsLoop(_, _, _)
readFieldsLoop(s, pos, n) ==
    IF n = 0 THEN [st |-> "ok", pos |-> pos, v |-> 0]
    ELSE LET type == readNum(s, pos) IN
         IF type.st # "ok" THEN type
         ELSE IF type.v = 0
              THEN LET x == readNum(s, type.pos) IN
                   IF x.st # "ok" THEN x ELSE readFieldsLoop(s, x.pos, n - 1)
              ELSE IF type.v = 1
              THEN LET x == readString(s, type.pos) IN
                   IF x.st # "ok" THEN x ELSE readFieldsLoop(s, x.pos, n - 1)
              ELSE [st |-> "badfield", pos |-> type.pos, v |-> type.v]

readFields(s, pos) ==
    LET size == readNum(s, pos) IN
    IF size.st # "ok" THEN size ELSE readFieldsLoop(s, size.pos, size.v)

\* A run of reads, each "n" (readNum / readInt), "s" (readString) or
\* "f" (readFields); stops at the first one that fails.
readOne(s, pos, kind) ==
    CASE kind = "n" -> readNum(s, pos)
      [] kind = "s" -> readString(s, pos)
      [] OTHER -> readFields(s, pos)

RECURSIVE readAll(_, _, _)
readRest(s, r, kinds) == IF r.st # "ok" THEN r ELSE readAll(s, r.pos, kinds)

readAll(s, pos, kinds) ==
    IF kinds = <<>> THEN [st |-> "ok", pos |-> pos, v |-> 0]
    ELSE readRest(s, readOne(s, pos, Head(kinds)), Tail(kinds))

(***************************************************************************)
(* Connection::processStderr, one iteration of its loop: reads one message *)
(* at pos.  out is "cont" (loop again), "last" (break, return nullptr),    *)
(* "error" (return the daemon's Error), or the exception thrown:           *)
(* "nosink", "nosource", "unknown", "badfield", "eof".                     *)
(***************************************************************************)
Throw(r) == [out |-> r.st, pos |-> r.pos]

\* Mutant: the status word of an ERROR message is left in the stream.
readError_NoStatus(s, pos) == readString(s, pos)

\* The payload of STDERR_ERROR: the message string, then the status.
readError(s, pos) == readAll(s, pos, <<"s", "n">>)

\* After the payload r of a message was read: throw on a failed read.
Payload(r, out) == IF r.st # "ok" THEN Throw(r) ELSE [out |-> out, pos |-> r.pos]

processStderrTag(s, msg, sink, source) ==
    CASE msg.v = STDERR_WRITE ->
            Payload(readString(s, msg.pos), IF ~sink THEN "nosink" ELSE "cont")
      [] msg.v = STDERR_READ ->
            IF ~source THEN [out |-> "nosource", pos |-> msg.pos]
            ELSE Payload(readNum(s, msg.pos), "cont")
      [] msg.v = STDERR_ERROR -> Payload(readError(s, msg.pos), "error")
      [] msg.v = STDERR_NEXT -> Payload(readString(s, msg.pos), "cont")
      [] msg.v = STDERR_START_ACTIVITY ->
            Payload(readAll(s, msg.pos, <<"n", "n", "n", "s", "f", "n">>), "cont")
      [] msg.v = STDERR_STOP_ACTIVITY -> Payload(readNum(s, msg.pos), "cont")
      [] msg.v = STDERR_RESULT -> Payload(readAll(s, msg.pos, <<"n", "n", "f">>), "cont")
      [] msg.v = STDERR_LAST -> [out |-> "last", pos |-> msg.pos]
      [] OTHER -> [out |-> "unknown", pos |-> msg.pos]

processStderrRead(s, msg, sink, source) ==
    IF msg.st # "ok" THEN Throw(msg) ELSE processStderrTag(s, msg, sink, source)

processStderrMsg(s, pos, sink, source) ==
    processStderrRead(s, readNum(s, pos), sink, source)

\* The whole loop, from position pos.
RECURSIVE processStderr(_, _, _, _)
processStderrLoop(s, r, sink, source) ==
    IF r.out = "cont" THEN processStderr(s, r.pos, sink, source) ELSE r

processStderr(s, pos, sink, source) ==
    processStderrLoop(s, processStderrMsg(s, pos, sink, source), sink, source)

Returned(out) == out \in {"last", "error"}

(***************************************************************************)
(* initConnection and setOptions against a daemon script                   *)
(* [magic, version, cpu, drain1, drain2]: what the daemon answers to the   *)
(* greeting, the CPU the client locks to (-1: none), and the stderr        *)
(* streams the daemon sends before and after SET_OPTIONS.                  *)
(***************************************************************************)
WORKER_MAGIC_1 == 1852405859
WORKER_MAGIC_2 == 1685612911
PROTOCOL_VERSION == 282

GET_PROTOCOL_MAJOR(x) == ((x \div 256) % 256) * 256
GET_PROTOCOL_MINOR(x) == x % 256

DaemonStream(sc) == <<sc.magic, sc.version>> \o sc.drain1 \o sc.drain2

GreetInit(sc) ==
    [pc |-> "magic1", wire |-> <<>>, pos |-> 0, daemonVersion |-> 0,
     out |-> "none", stage |-> "greet", script |-> sc]

Send(g, what, next) == [g EXCEPT !.wire = @ \o what, !.pc = next]

Fail(g, why) == [g EXCEPT !.pc = "failed", !.out = why]

\* unsigned int magic = readInt(conn.from);
GreetMagic(g, rd) ==
    IF rd.v # WORKER_MAGIC_2
    THEN Fail([g EXCEPT !.wire = @ \o <<"read magic">>, !.pos = rd.pos], "mismatch")
    ELSE [g EXCEPT !.wire = @ \o <<"read magic">>, !.pos = rd.pos, !.pc = "readVersion"]

GreetReadMagic(g) == GreetMagic(g, readNum(DaemonStream(g.script), g.pos))

\* conn.from >> conn.daemonVersion, and the two version checks.
GreetVersionCheck(g) ==
    IF GET_PROTOCOL_MAJOR(g.daemonVersion) # GET_PROTOCOL_MAJOR(PROTOCOL_VERSION)
    THEN Fail(g, "unsupported")
    ELSE IF GET_PROTOCOL_MINOR(g.daemonVersion) < 10 THEN Fail(g, "tooold")
    ELSE [g EXCEPT !.pc = "sendVersion"]

GreetVersion(g, rd) ==
    GreetVersionCheck([g EXCEPT !.wire = @ \o <<"read version">>, !.pos = rd.pos,
                                !.daemonVersion = rd.v])

GreetReadVersion(g) == GreetVersion(g, readNum(DaemonStream(g.script), g.pos))

\* The order of the two version-gated sends of the greeting.
GreetAffinity(g) ==
    IF GET_PROTOCOL_MINOR(g.daemonVersion) >= 14
    THEN IF g.script.cpu # -1
         THEN Send(g, <<"send 1", "send cpu">>, "reserved")
         ELSE Send(g, <<"send 0">>, "reserved")
    ELSE [g EXCEPT !.pc = "reserved"]

\* Mutant: the reserved flag is gated on minor 12 instead of 11.
GreetReserved_Gate12(g) ==
    IF GET_PROTOCOL_MINOR(g.daemonVersion) >= 12
    THEN Send(g, <<"send false">>, "drain1")
    ELSE [g EXCEPT !.pc = "drain1"]

GreetReserved(g) ==
    IF GET_PROTOCOL_MINOR(g.daemonVersion) >= 11
    THEN Send(g, <<"send false">>, "drain1")
    ELSE [g EXCEPT !.pc = "drain1"]

\* auto ex = conn.processStderr(); if (ex) std::rethrow_exception(ex);
GreetDrained(g, r) ==
    IF r.out = "last"
    THEN [g EXCEPT !.wire = @ \o <<"flush", "drain">>, !.pos = r.pos,
                   !.pc = IF g.pc = "drain1" THEN "setOptions" ELSE "done"]
    ELSE [g EXCEPT !.wire = @ \o <<"flush", "drain">>, !.pos = r.pos,
                   !.pc = "failed", !.out = IF r.out = "error" THEN "daemon" ELSE r.out]

GreetDrain(g) ==
    GreetDrained(g, processStderr(DaemonStream(g.script), g.pos, FALSE, FALSE))

\* One step of initConnection (pc magic1 .. drain1) or setOptions (after).
GreetStep(g) ==
    IF g.pc = "magic1" THEN Send(g, <<"send MAGIC_1", "flush">>, "readMagic")
    ELSE IF g.pc = "readMagic" THEN GreetReadMagic(g)
    ELSE IF g.pc = "readVersion" THEN GreetReadVersion(g)
    ELSE IF g.pc = "sendVersion" THEN Send(g, <<"send PROTOCOL_VERSION">>, "affinity")
    ELSE IF g.pc = "affinity" THEN GreetAffinity(g)
    ELSE IF g.pc = "reserved" THEN GreetReserved(g)
    ELSE IF g.pc = "drain1" THEN GreetDrain(g)
    ELSE IF g.pc = "setOptions"
    THEN [Send(g, <<"send SET_OPTIONS">>, "overrides") EXCEPT !.stage = "setopt"]
    ELSE IF g.pc = "overrides"
    THEN (IF GET_PROTOCOL_MINOR(g.daemonVersion) >= 12
          THEN Send(g, <<"send overrides">>, "drain2")
          ELSE [g EXCEPT !.pc = "drain2"])
    ELSE IF g.pc = "drain2" THEN GreetDrain(g)
    ELSE g

GreetOver(g) == g.pc \in {"done", "failed"}

RECURSIVE GreetRun(_)
GreetRun(g) == IF GreetOver(g) THEN g ELSE GreetRun(GreetStep(g))

\* initConnection(conn) as the pool factory sees it.
initConnection(sc) == GreetRun(GreetInit(sc))

(***************************************************************************)
(* The daemon's stderr streams used by the state machines below.           *)
(***************************************************************************)
MsgLast == Msg(STDERR_LAST, 0, 0, <<>>)
MsgError == Msg(STDERR_ERROR, 12, 1, <<>>)
MsgNext == Msg(STDERR_NEXT, 8, 0, <<>>)
MsgNextEmpty == Msg(STDERR_NEXT, 0, 0, <<>>)
MsgWrite == Msg(STDERR_WRITE, 9, 0, <<>>)
MsgRead == Msg(STDERR_READ, 16, 0, <<>>)
MsgStart == Msg(STDERR_START_ACTIVITY, 3, 0,
                <<[type |-> 0, len |-> 0], [type |-> 1, len |-> 9]>>)
MsgStartBad == Msg(STDERR_START_ACTIVITY, 3, 0, <<[type |-> 2, len |-> 0]>>)
MsgStop == Msg(STDERR_STOP_ACTIVITY, 0, 0, <<>>)
MsgResult == Msg(STDERR_RESULT, 0, 0, <<[type |-> 1, len |-> 1]>>)
MsgUnknown == Msg(UNKNOWN_TAG, 0, 0, <<>>)

Msgs == {MsgLast, MsgError, MsgNext, MsgNextEmpty, MsgWrite, MsgRead, MsgStart,
         MsgStartBad, MsgStop, MsgResult, MsgUnknown}

Terminator(m) == m.tag \in {STDERR_LAST, STDERR_ERROR}

RECURSIVE SeqsUpTo(_, _)
SeqsUpTo(S, n) ==
    IF n = 0 THEN {<<>>}
    ELSE LET shorter == SeqsUpTo(S, n - 1) IN
         shorter \cup {Append(q, x) : q \in shorter, x \in S}

(***************************************************************************)
(* SpecStderr: the daemon sends any sequence of messages (possibly cut     *)
(* short by one word), processStderr runs over it one message per step.    *)
(***************************************************************************)
NoPs == [msgs |-> <<>>, s |-> <<>>, pos |-> 0, out |-> "idle",
         sink |-> FALSE, source |-> FALSE, n |-> 0]

NoGr == [pc |-> "none", wire |-> <<>>, pos |-> 0, daemonVersion |-> 0,
         out |-> "none", stage |-> "greet",
         script |-> [magic |-> 0, version |-> 0, cpu |-> -1,
                     drain1 |-> <<>>, drain2 |-> <<>>]]

NoFu == [pc |-> "none"]

NoUx == [pc |-> "none"]

NoRt == [pc |-> "none"]

NoQv == [pc |-> "none"]

NoRq == [pc |-> "none"]

Threads == 1..NThreads

NoEv == [t |-> 0, op |-> "none", out |-> "none", conn |-> 0, drain |-> "none",
         resp |-> FALSE, stage |-> "none", wrote |-> FALSE]

Quiet == ev' = NoEv

NoConn == [st |-> "none", minor |-> 0, start |-> 0, toGood |-> TRUE, fromGood |-> TRUE]

PoolIdleInit ==
    /\ idle = <<>> /\ inUse = 0 /\ max = 1 /\ failed = FALSE
    /\ conns = [c \in 1..MaxConns |-> NoConn]
    /\ now = 0 /\ daemon = [minor |-> 0]
    /\ stack = [t \in Threads |-> <<>>]
    /\ exc = [t \in Threads |-> "none"]
    /\ ev = NoEv
    /\ cache = {}

StderrInit ==
    /\ PoolIdleInit
    /\ gr = NoGr /\ fu = NoFu /\ ux = NoUx /\ rt = NoRt /\ qv = NoQv /\ rq = NoRq
    /\ \E ms \in SeqsUpTo(Msgs, MaxMsgs) \ {<<>>}, cut \in 0..1, sink, source \in BOOLEAN :
          LET s == EncMsgs(ms) IN
          ps = [msgs |-> ms, s |-> SubSeq(s, 1, Len(s) - cut), pos |-> 0,
                out |-> "cont", sink |-> sink, source |-> source, n |-> 0]

StderrStep ==
    /\ ps.out = "cont"
    /\ LET r == processStderrMsg(ps.s, ps.pos, ps.sink, ps.source) IN
       ps' = [ps EXCEPT !.out = r.out, !.pos = r.pos, !.n = @ + 1]
    /\ UNCHANGED <<poolVars, gr, fu, ux, rt, qv, rq>>

StderrNext == StderrStep

SpecStderr == StderrInit /\ [][StderrNext]_vars

\* The index of the first LAST or ERROR message of ms (0: none).
RECURSIVE FirstTerminator(_, _)
FirstTerminator(ms, i) ==
    IF i > Len(ms) THEN 0
    ELSE IF Terminator(ms[i]) THEN i ELSE FirstTerminator(ms, i + 1)

\* C7: a processStderr that returns has consumed exactly the words of the
\* messages up to and including the first LAST or ERROR (its string and
\* status included), not a word after it; it returns "last" or "error"
\* according to that message, and no earlier message ended the loop.
C7_ConsumesExactlyToTerminator ==
    Returned(ps.out) =>
        LET k == FirstTerminator(ps.msgs, 1) IN
        /\ k > 0
        /\ ps.n = k
        /\ ps.pos = Len(EncMsgs(SubSeq(ps.msgs, 1, k)))
        /\ ps.pos <= Len(ps.s)
        /\ ps.out = (IF ps.msgs[k].tag = STDERR_LAST THEN "last" ELSE "error")

\* C7 witness: an ERROR after intermediate messages, with words left unread.
C7_Witness ==
    /\ ps.out = "error"
    /\ ps.n = 2
    /\ ps.msgs[1].tag = STDERR_START_ACTIVITY
    /\ ps.pos < Len(ps.s)

(***************************************************************************)
(* SpecGreet: one greeting against any daemon script, one wire step per    *)
(* action.                                                                 *)
(***************************************************************************)
GreetMinors == {9, 10, 11, 13, 14, 25}
GreetMajors == {1, 2}
GreetDrains == {EncMsgs(<<MsgLast>>), EncMsgs(<<MsgNext, MsgLast>>),
                EncMsgs(<<MsgError>>), EncMsgs(<<MsgUnknown>>), <<>>}

GreetScripts ==
    [magic : {WORKER_MAGIC_2, WORKER_MAGIC_1},
     version : {256 * a + b : a \in GreetMajors, b \in GreetMinors},
     cpu : {-1, 2},
     drain1 : GreetDrains,
     drain2 : GreetDrains]

GreetSpecInit ==
    /\ PoolIdleInit
    /\ ps = NoPs /\ fu = NoFu /\ ux = NoUx /\ rt = NoRt /\ qv = NoQv /\ rq = NoRq
    /\ \E sc \in GreetScripts : gr = GreetInit(sc)

GreetAdvance ==
    /\ ~GreetOver(gr)
    /\ gr.pc # "none"
    /\ gr' = GreetStep(gr)
    /\ UNCHANGED <<poolVars, ps, fu, ux, rt, qv, rq>>

GreetNext == GreetAdvance

SpecGreet == GreetSpecInit /\ [][GreetNext]_vars

IsPrefix(a, b) == Len(a) <= Len(b) /\ SubSeq(b, 1, Len(a)) = a

Has(w, e) == \E i \in 1..Len(w) : w[i] = e

\* The wire actions of a complete greeting up to SET_OPTIONS, in the order
\* the protocol prescribes, for a daemon of the given version and CPU lock.
ExpectedGreeting(version, cpu) ==
    <<"send MAGIC_1", "flush", "read magic", "read version", "send PROTOCOL_VERSION">>
    \o (IF version % 256 >= 14
        THEN (IF cpu # -1 THEN <<"send 1", "send cpu">> ELSE <<"send 0">>)
        ELSE <<>>)
    \o (IF version % 256 >= 11 THEN <<"send false">> ELSE <<>>)
    \o <<"flush", "drain", "send SET_OPTIONS">>

RECURSIVE UpTo(_, _)
UpTo(w, e) ==
    IF w = <<>> THEN <<>>
    ELSE IF Head(w) = e THEN <<e>> ELSE <<Head(w)>> \o UpTo(Tail(w), e)

\* C6: the wire actions of every greeting are, in order, a prefix of
\* MAGIC_1+flush, read MAGIC_2, read version, PROTOCOL_VERSION, the affinity
\* word(s) iff minor >= 14, one false iff minor >= 11, the stderr drain,
\* SET_OPTIONS; nothing is sent after a wrong magic or a rejected version,
\* and SET_OPTIONS is sent only after the drain ended with LAST.
C6_GreetingOrder ==
    LET sc == gr.script
        w == UpTo(gr.wire, "send SET_OPTIONS")
        rejected == \/ (sc.version \div 256) % 256 # 1
                    \/ sc.version % 256 < 10
    IN gr.pc # "none" =>
        /\ IsPrefix(w, ExpectedGreeting(sc.version, sc.cpu))
        /\ sc.magic # WORKER_MAGIC_2 => ~Has(gr.wire, "read version")
        /\ (sc.magic # WORKER_MAGIC_2 \/ rejected) =>
              /\ ~Has(gr.wire, "send PROTOCOL_VERSION")
              /\ ~Has(gr.wire, "send SET_OPTIONS")
        /\ (gr.pc = "overrides") =>
              /\ gr.pos >= 3
              /\ DaemonStream(sc)[gr.pos] = STDERR_LAST
              /\ gr.wire[Len(gr.wire) - 1] = "drain"
        /\ (gr.pc = "done") =>
              /\ IsPrefix(ExpectedGreeting(sc.version, sc.cpu), gr.wire)
              /\ ~rejected

\* C6 witness: a completed greeting of a minor-14 daemon with a CPU lock.
C6_Witness ==
    /\ gr.pc = "done"
    /\ gr.script.version = 256 + 14
    /\ gr.script.cpu # -1
    /\ Has(gr.wire, "send cpu")

(***************************************************************************)
(* The connection pool (pool.hh) and the leases on it.                     *)
(***************************************************************************)
\* The age of a connection in whole seconds:
\* duration_cast<seconds>(steady_clock::now() - r->startTime).count().
Age(c) == now - conns[c].start

\* Mutant: a connection whose age equals maxConnectionAge is still valid.
ValidAge_Leq(age) == age <= MaxConnectionAge

\* ... < maxConnectionAge
ValidAge(age) == age < MaxConnectionAge

\* The pool's validator, the second lambda of RemoteStore::RemoteStore.
Valid(c) ==
    /\ conns[c].toGood
    /\ conns[c].fromGood
    /\ ValidAge(Age(c))

\* What a step of the pool that looked at idle connection p leaves in ev:
\* p when the validator refused it although both of its streams are good.
Expired(p) ==
    IF conns[p].toGood /\ conns[p].fromGood /\ ~Valid(p)
    THEN [NoEv EXCEPT !.stage = "expired", !.conn = p]
    ELSE NoEv

\* The loop of Pool::get over idle: pops from the back until a connection
\* passes the validator; those that fail it are destroyed.
RECURSIVE PopValid(_)
PopValid(idl) ==
    IF idl = <<>> THEN [c |-> 0, idle |-> <<>>, dead |-> {}]
    ELSE LET p == idl[Len(idl)]
             rest == SubSeq(idl, 1, Len(idl) - 1)
         IN IF Valid(p) THEN [c |-> p, idle |-> rest, dead |-> {}]
            ELSE LET r == PopValid(rest) IN [r EXCEPT !.dead = @ \cup {p}]

\* Pool::flushBad keeps the idle connections that pass the validator.
RECURSIVE KeepValid(_)
KeepValid(idl) ==
    IF idl = <<>> THEN <<>>
    ELSE (IF Valid(Head(idl)) THEN <<Head(idl)>> ELSE <<>>) \o KeepValid(Tail(idl))

Elems(q) == {q[i] : i \in 1..Len(q)}

\* ~Connection: the object is gone.
Destroy(cs, dead) ==
    [c \in DOMAIN cs |-> IF c \in dead THEN [NoConn EXCEPT !.st = "dead"] ELSE cs[c]]

(***************************************************************************)
(* A frame of the call stack: one store operation in progress.             *)
(*   lease: "CH" a ConnectionHandle, "PH" a bare Pool::Handle, "none"      *)
(*   dexc:  ConnectionHandle::daemonException                               *)
(***************************************************************************)
Frame(op, pc, todo, method) ==
    [op |-> op, pc |-> pc, conn |-> 0, lease |-> "none", dexc |-> FALSE,
     todo |-> todo, method |-> method, wrote |-> FALSE]

Top(t) == stack[t][Len(stack[t])]

TopOf(st, t) == st[t][Len(st[t])]

Running(t) == stack[t] # <<>> /\ exc[t] = "none"

At(t, op, pc) == Running(t) /\ Top(t).op = op /\ Top(t).pc = pc

SetTop(t, f) == [stack EXCEPT ![t] = [@ EXCEPT ![Len(@)] = f]]

Push(t, f, callee) == [stack EXCEPT ![t] = Append([@ EXCEPT ![Len(@)] = f], callee)]

Pop(t) == [stack EXCEPT ![t] = SubSeq(@, 1, Len(@) - 1)]

\* The operations that lease with connections->get() rather than
\* getConnection(): their handle is a bare Pool::Handle.
BareHandleOps == {"narFromPath", "getProtocol"}

LeaseKind(op) == IF op \in BareHandleOps THEN "PH" ELSE "CH"

\* Mutant: the lease ignores daemonException and marks bad on any exception.
MarkBad_IgnoresDaemonException(f, uncaught) == f.lease = "CH" /\ uncaught

\* ~ConnectionHandle: whether the destructor calls handle.markBad().
MarkBad(f, uncaught) == f.lease = "CH" /\ ~f.dexc /\ uncaught

\* Leaving frame f of thread t, normally (e = "ok") or with exception e in
\* flight: the handle's destructor gives the connection back to idle or,
\* if it was marked bad, drops it (~Connection); the frame is popped and
\* the exception propagates to the caller.  io names the streams an I/O
\* error has turned bad.
Leave(t, f, e, drain, resp, stage, io) ==
    LET bad == MarkBad(f, e # "ok")
        c == f.conn
        cs1 == IF c # 0 /\ io = "from" THEN [conns EXCEPT ![c].fromGood = FALSE]
               ELSE IF c # 0 /\ io = "to" THEN [conns EXCEPT ![c].toGood = FALSE]
               ELSE conns
    IN /\ idle' = IF f.lease # "none" /\ ~bad THEN Append(idle, c) ELSE idle
       /\ inUse' = IF f.lease # "none" THEN inUse - 1 ELSE inUse
       /\ conns' = IF f.lease # "none" /\ bad THEN Destroy(cs1, {c}) ELSE cs1
       /\ stack' = Pop(t)
       /\ exc' = [exc EXCEPT ![t] = IF e = "ok" \/ Len(stack[t]) = 1 THEN "none" ELSE e]
       /\ ev' = [t |-> t, op |-> f.op, out |-> e, conn |-> c, drain |-> drain,
                 resp |-> resp, stage |-> stage, wrote |-> f.wrote]

\* The exception a failed processStderr or response read raises.
DrainExc(out) ==
    CASE out = "error" -> "daemon"
      [] out = "eof" -> "eof"
      [] OTHER -> "protocol"

IoOf(e) == IF e = "eof" THEN "from" ELSE IF e = "epipe" THEN "to" ELSE "none"

\* What the daemon may send as the stderr of one request, and how the
\* decoding of the response that follows may end.
OpDrains == {EncMsgs(<<MsgLast>>), EncMsgs(<<MsgNext, MsgLast>>), EncMsgs(<<MsgError>>),
             EncMsgs(<<MsgUnknown>>), EncMsgs(<<MsgWrite, MsgLast>>), <<>>,
             EncMsgs(<<MsgRead>>), EncMsgs(<<MsgStartBad, MsgLast>>)}

Resps == {"ok", "eof", "protocol"}

(***************************************************************************)
(* A caller starts a store operation.                                      *)
(***************************************************************************)
TopOps == {"isValidPath", "narFromPath", "getProtocol", "queryValidPaths",
           "queryDerivationOutputs", "queryMissing", "addCAToStore", "queryPathInfo",
           "collectGarbage"}

\* The callers: the first thread runs any operation, the others only
\* isValidPath.
OtherOps == {"isValidPath"}

ThreadOps(t) == IF t = 1 THEN TopOps ELSE OtherOps

FirstPc(op) == IF op = "queryPartialDerivationOutputMap" THEN "proto" ELSE "get"

NewFrame(op, todo, method) == Frame(op, FirstPc(op), todo, method)

Call(t) ==
    /\ stack[t] = <<>>
    /\ \E op \in ThreadOps(t), todo \in 0..MaxTodo, method \in {"text", "fixed"} :
          /\ todo > 0 => op \in {"queryValidPaths", "queryMissing", "addCAToStore"}
          /\ method = "fixed" => op = "addCAToStore"
          /\ op = "addCAToStore" => method \in {"text", "fixed"}
          /\ stack' = [stack EXCEPT ![t] = <<NewFrame(op, todo, IF op = "addCAToStore" THEN method ELSE "none")>>]
    /\ UNCHANGED <<idle, inUse, max, failed, conns, now, daemon, exc, side, cache>> /\ Quiet

(***************************************************************************)
(* Pool::get: the part under the pool's lock.  Waits while nothing is idle *)
(* and inUse >= max; reuses the last idle connection that passes the       *)
(* validator; else reserves a slot and goes on to the factory.             *)
(***************************************************************************)
PoolGet(t) ==
    /\ Running(t) /\ Top(t).pc = "get"
    /\ ~(idle = <<>> /\ inUse >= max)
    /\ LET r == PopValid(idle)
           f == Top(t)
       IN /\ idle' = r.idle
          /\ inUse' = inUse + 1
          /\ conns' = Destroy(conns, r.dead)
          /\ stack' = IF r.c # 0
                      THEN SetTop(t, [f EXCEPT !.pc = "body", !.conn = r.c,
                                               !.lease = LeaseKind(f.op)])
                      ELSE SetTop(t, [f EXCEPT !.pc = "open"])
    /\ ev' = IF idle = <<>> THEN NoEv ELSE Expired(idle[Len(idle)])
    /\ UNCHANGED <<max, failed, now, daemon, exc, side, cache>>

\* The factory failed: Pool::get gives the slot back and rethrows.
FactoryThrow(t, e, stage, dead) ==
    /\ inUse' = inUse - 1
    /\ conns' = Destroy(conns, dead)
    /\ stack' = Pop(t)
    /\ exc' = [exc EXCEPT ![t] = IF Len(stack[t]) = 1 THEN "none" ELSE e]
    /\ ev' = [NoEv EXCEPT !.t = t, !.op = Top(t).op, !.out = e, !.stage = stage]
    /\ UNCHANGED <<idle, max, now, daemon, side, cache>>

\* Mutant: a failure of set_options does not latch failed.
FailedAfter_NotSetOptions(stage) == stage # "setopt"

\* The value the catch blocks of the factory and of openConnectionWrapper
\* give to failed when the given stage threw.
FailedAfter(stage) == TRUE

\* Mutant: openConnectionWrapper does not look at failed.
openRefused_Never(f) == FALSE

\* if (failed) throw Error("opening a connection to remote store ...")
openRefused(f) == f

\* openConnectionWrapper: refuses once failed; else openConnection, which
\* may fail (socket, path too long, connect).
openConnectionWrapper(t) ==
    /\ Running(t) /\ Top(t).pc = "open"
    /\ IF openRefused(failed)
       THEN /\ FactoryThrow(t, "unreachable", "none", {})
            /\ UNCHANGED failed
       ELSE \E ok \in BOOLEAN :
              IF ok
              THEN /\ \E c \in 1..MaxConns :
                        /\ conns[c].st = "none"
                        /\ \A d \in 1..(c - 1) : conns[d].st # "none"
                        /\ conns' = [conns EXCEPT ![c] =
                                        [NoConn EXCEPT !.st = "opening", !.start = now]]
                        /\ stack' = SetTop(t, [Top(t) EXCEPT !.pc = "init", !.conn = c])
                   /\ UNCHANGED <<idle, inUse, max, failed, now, daemon, exc, side, cache>> /\ Quiet
              ELSE /\ failed' = (failed \/ FailedAfter("open"))
                   /\ FactoryThrow(t, "openfail", "open", {})

\* The daemon's side of one greeting.
FactoryScripts ==
    {[magic |-> m, version |-> 256 + daemon.minor, cpu |-> -1, drain1 |-> d1, drain2 |-> d2] :
        m \in {WORKER_MAGIC_2, WORKER_MAGIC_1},
        d1 \in {EncMsgs(<<MsgLast>>), EncMsgs(<<MsgError>>)},
        d2 \in {EncMsgs(<<MsgLast>>), EncMsgs(<<MsgError>>), <<>>}}

\* The factory's try block after initConnection ended as g.
factoryMade(t, f, g) ==
    IF g.pc = "done"
    THEN /\ conns' = [conns EXCEPT ![f.conn].st = "live",
                                   ![f.conn].minor = GET_PROTOCOL_MINOR(g.daemonVersion)]
         /\ stack' = SetTop(t, [f EXCEPT !.pc = "body", !.lease = LeaseKind(f.op)])
         /\ UNCHANGED <<idle, inUse, max, failed, now, daemon, exc, side, cache>> /\ Quiet
    ELSE /\ failed' = (failed \/ FailedAfter(g.stage))
         /\ FactoryThrow(t, "greetfail", g.stage, {f.conn})

\* The rest of the pool factory: initConnection (greeting, then setOptions).
factoryInit(t) ==
    /\ Running(t) /\ Top(t).pc = "init"
    /\ \E sc \in FactoryScripts : factoryMade(t, Top(t), initConnection(sc))

\* RemoteStore::flushBadConnections.
flushBadConnections ==
    /\ idle # <<>>
    /\ idle' = KeepValid(idle)
    /\ conns' = Destroy(conns, Elems(idle) \ Elems(KeepValid(idle)))
    /\ ev' = Expired(idle[1])
    /\ UNCHANGED <<inUse, max, failed, now, daemon, stack, exc, side, cache>>

Tick ==
    /\ now < MaxTime
    /\ now' = now + 1
    /\ UNCHANGED <<idle, inUse, max, failed, conns, daemon, stack, exc, side, cache>> /\ Quiet

Minor(t) == conns[Top(t).conn].minor

(***************************************************************************)
(* The operation dispatcher.                                               *)
(***************************************************************************)
FrozenButCache == <<max, failed, now, daemon, side>>

Frozen == <<FrozenButCache, cache>>

\* The one path the callers ask about.
Path == "path"

\* Store::queryPathInfo (the base store) caches what queryPathInfoUncached
\* returned.
CachePut(c, out) == IF out = "ok" THEN c \cup {Path} ELSE c

\* Mutant: the protocol errors too are returned as deferred errors, so the
\* handle takes them for the daemon's.
handleProcessStderr_AnyError(f, out) == [f EXCEPT !.dexc = (out # "last")]

\* ConnectionHandle::processStderr over the daemon's stream d: the frame
\* with daemonException set when the drain returned the daemon's error.
handleProcessStderr(f, out) == [f EXCEPT !.dexc = (out = "error")]

\* How Connection::processStderr ends on the daemon's stream d.
DrainOut(d) == processStderr(d, 0, FALSE, FALSE).out

DrainOuts == {DrainOut(d) : d \in OpDrains}

\* The common shape of an operation through a ConnectionHandle: write the
\* request, conn.processStderr(), decode the response, return.
\* The drain threw or returned the daemon's error: the operation ends.
DrainFailed(t, f, out) ==
    Leave(t, handleProcessStderr(f, out), DrainExc(out), out, FALSE, "none", IoOf(DrainExc(out)))

Exchange(t) ==
    \E out \in DrainOuts, r \in Resps :
        IF out = "last"
        THEN Leave(t, [Top(t) EXCEPT !.wrote = TRUE], r, "last", TRUE, "none", IoOf(r))
        ELSE DrainFailed(t, [Top(t) EXCEPT !.wrote = TRUE], out)

isValidPathUncached(t) ==
    /\ At(t, "isValidPath", "body")
    /\ Exchange(t)
    /\ UNCHANGED Frozen

\* narFromPath holds a bare Pool::Handle and calls Connection::processStderr
\* directly: the exception_ptr it returns is dropped and copyNAR reads on.
\* After an ERROR the daemon sends nothing more, so that read ends when the
\* daemon closes the socket.
narFromPath(t) ==
    /\ At(t, "narFromPath", "body")
    /\ \E out \in DrainOuts, r \in Resps :
          IF Returned(out)
          THEN /\ out = "error" => r = "eof"
               /\ Leave(t, [Top(t) EXCEPT !.wrote = TRUE], r, out, TRUE, "none", IoOf(r))
          ELSE Leave(t, [Top(t) EXCEPT !.wrote = TRUE], DrainExc(out), out, FALSE,
                     "none", IoOf(DrainExc(out)))
    /\ UNCHANGED Frozen

getProtocol(t) ==
    /\ At(t, "getProtocol", "body")
    /\ Leave(t, Top(t), "ok", "none", FALSE, "none", "none")
    /\ UNCHANGED Frozen

\* Store::isValidPath (the base store) ends in isValidPathUncached.
CallIsValidPath(t, f) ==
    /\ stack' = Push(t, f, NewFrame("isValidPath", 0, "none"))
    /\ UNCHANGED <<idle, inUse, conns, exc>> /\ Quiet

queryValidPaths(t) ==
    /\ At(t, "queryValidPaths", "body")
    /\ IF Minor(t) < 12
       THEN /\ stack' = SetTop(t, [Top(t) EXCEPT !.pc = "loop"])
            /\ UNCHANGED <<idle, inUse, conns, exc>> /\ Quiet
       ELSE Exchange(t)
    /\ UNCHANGED Frozen

\* for (auto & i : paths) if (isValidPath(i)) res.insert(i);
queryValidPathsLoop(t) ==
    /\ At(t, "queryValidPaths", "loop")
    /\ IF Top(t).todo > 0
       THEN CallIsValidPath(t, [Top(t) EXCEPT !.todo = @ - 1])
       ELSE Leave(t, Top(t), "ok", "none", FALSE, "none", "none")
    /\ UNCHANGED Frozen

\* Store::queryDerivationOutputs (the base store) asks
\* queryPartialDerivationOutputMap for the outputs.
queryDerivationOutputs(t) ==
    /\ At(t, "queryDerivationOutputs", "body")
    /\ IF Minor(t) >= 22
       THEN /\ stack' = Push(t, [Top(t) EXCEPT !.pc = "delegated"],
                             NewFrame("queryPartialDerivationOutputMap", 0, "none"))
            /\ UNCHANGED <<idle, inUse, conns, exc>> /\ Quiet
       ELSE Exchange(t)
    /\ UNCHANGED Frozen

queryDerivationOutputsReturn(t) ==
    /\ At(t, "queryDerivationOutputs", "delegated")
    /\ Leave(t, Top(t), "ok", "none", FALSE, "none", "none")
    /\ UNCHANGED Frozen

queryPartialDerivationOutputMap(t) ==
    /\ Running(t) /\ Top(t).op = "queryPartialDerivationOutputMap"
    /\ Top(t).pc \in {"proto", "gate", "body"}
    /\ CASE Top(t).pc = "proto" ->
              /\ stack' = Push(t, [Top(t) EXCEPT !.pc = "gate"], NewFrame("getProtocol", 0, "none"))
              /\ UNCHANGED <<idle, inUse, conns, exc>> /\ Quiet
         [] Top(t).pc = "gate" ->
              IF daemon.minor >= 22
              THEN /\ stack' = SetTop(t, [Top(t) EXCEPT !.pc = "get"])
                   /\ UNCHANGED <<idle, inUse, conns, exc>> /\ Quiet
              ELSE Leave(t, Top(t), "ok", "none", FALSE, "none", "none")
         [] OTHER -> Exchange(t)
    /\ UNCHANGED Frozen

\* Mutant: the handle of queryMissing lives on into the fallback.
FallbackLease_Kept(f) == f.lease

\* The lease queryMissing still holds at the label fallback: the handle is
\* declared in the block the goto leaves.
FallbackLease(f) == "none"

queryMissing(t) ==
    /\ At(t, "queryMissing", "body")
    /\ IF Minor(t) < 19
       THEN LET f == Top(t)
                kept == FallbackLease(f) # "none"
            IN /\ idle' = IF kept THEN idle ELSE Append(idle, f.conn)
               /\ inUse' = IF kept THEN inUse ELSE inUse - 1
               /\ stack' = SetTop(t, [f EXCEPT !.pc = "fallback",
                                               !.lease = FallbackLease(f),
                                               !.conn = IF kept THEN f.conn ELSE 0])
               /\ UNCHANGED <<conns, exc>> /\ Quiet
       ELSE Exchange(t)
    /\ UNCHANGED Frozen

\* Store::queryMissing (the base store): store operations, one after the
\* other, each of which leases a connection.
queryMissingFallback(t) ==
    /\ At(t, "queryMissing", "fallback")
    /\ IF Top(t).todo > 0
       THEN CallIsValidPath(t, [Top(t) EXCEPT !.todo = @ - 1])
       ELSE Leave(t, Top(t), "ok", "none", FALSE, "none", "none")
    /\ UNCHANGED Frozen

queryPathInfoUncached(t) ==
    /\ At(t, "queryPathInfo", "body")
    /\ \E out \in DrainOuts, r \in Resps, notValid \in BOOLEAN, valid \in BOOLEAN :
          IF out = "error"
          THEN Leave(t, handleProcessStderr([Top(t) EXCEPT !.wrote = TRUE], out),
                     IF notValid THEN "invalidpath" ELSE "daemon",
                     "error", FALSE, "none", "none")
          ELSE IF out # "last"
          THEN DrainFailed(t, [Top(t) EXCEPT !.wrote = TRUE], out)
          ELSE IF Minor(t) >= 17 /\ ~valid
          THEN Leave(t, [Top(t) EXCEPT !.wrote = TRUE], "invalidpath", "last", TRUE,
                     "none", "none")
          ELSE Leave(t, [Top(t) EXCEPT !.wrote = TRUE], r, "last", TRUE, "none", IoOf(r))
    /\ cache' = CachePut(cache, ev'.out)
    /\ UNCHANGED FrozenButCache

\* Mutant: collectGarbage clears the cache however it ends.
collectGarbageCache_Always(c, out) == {}

\* The cache after collectGarbage ended with out: state_->pathInfoCache.clear()
\* is the last statement, reached only when nothing before it threw.
collectGarbageCache(c, out) == IF out = "ok" THEN {} ELSE c

\* What collectGarbage leaves in ev.stage: whether the cache held an entry.
CacheSeen == IF cache # {} THEN "cached" ELSE "none"

collectGarbage(t) ==
    /\ At(t, "collectGarbage", "body")
    /\ \E out \in DrainOuts, r \in Resps :
          IF out = "last"
          THEN Leave(t, [Top(t) EXCEPT !.wrote = TRUE], r, "last", TRUE, CacheSeen, IoOf(r))
          ELSE Leave(t, handleProcessStderr([Top(t) EXCEPT !.wrote = TRUE], out),
                     DrainExc(out), out, FALSE, CacheSeen, IoOf(DrainExc(out)))
    /\ cache' = collectGarbageCache(cache, ev'.out)
    /\ UNCHANGED FrozenButCache

(***************************************************************************)
(* addCAToStore against a daemon older than 1.25.                          *)
(***************************************************************************)
\* Mutant: the lease is kept across queryPathInfo.
ResetLease_Kept(t, f) ==
    /\ stack' = SetTop(t, [f EXCEPT !.pc = "qpi"])
    /\ UNCHANGED <<idle, inUse, conns, exc>> /\ Quiet

\* conn_.reset(): the lease goes back to the pool before queryPathInfo.
ResetLease(t, f) ==
    /\ idle' = Append(idle, f.conn)
    /\ inUse' = inUse - 1
    /\ stack' = SetTop(t, [f EXCEPT !.pc = "qpi", !.lease = "none", !.conn = 0])
    /\ UNCHANGED <<conns, exc>> /\ Quiet

\* conn.processStderr(), then the path is read and the lease reset.
DrainThenPath(t, f) ==
    \E out \in DrainOuts, r \in Resps :
        IF out = "last"
        THEN IF r = "ok" THEN ResetLease(t, f)
             ELSE Leave(t, f, r, "last", TRUE, "none", IoOf(r))
        ELSE DrainFailed(t, f, out)

addCAToStore(t) ==
    /\ At(t, "addCAToStore", "body")
    /\ Minor(t) < 25
    /\ \E repair \in BOOLEAN :
          LET f == Top(t) IN
          IF repair
          THEN /\ Leave(t, f, "unsupported", "none", FALSE, "none", "none")
               /\ UNCHANGED max
          ELSE IF f.method = "text"
          THEN /\ DrainThenPath(t, [f EXCEPT !.wrote = TRUE])
               /\ UNCHANGED max
          ELSE /\ max' = max + 1
               /\ stack' = SetTop(t, [f EXCEPT !.pc = "window", !.wrote = TRUE])
               /\ UNCHANGED <<idle, inUse, conns, exc>> /\ Quiet
    /\ UNCHANGED <<failed, now, daemon, side, cache>>

\* While the payload is streamed the dump source may itself call the store.
addCAToStoreSource(t) ==
    /\ At(t, "addCAToStore", "window")
    /\ Top(t).todo > 0
    /\ CallIsValidPath(t, [Top(t) EXCEPT !.todo = @ - 1])
    /\ UNCHANGED Frozen

\* The streaming ends (well, with EPIPE, with another SysError, or with an
\* error of the source); the Finally runs connections->decCapacity().
addCAToStoreSent(t) ==
    /\ At(t, "addCAToStore", "window")
    /\ \E how \in {"sent", "epipe", "syserror", "srcerr"} :
          stack' = SetTop(t, [Top(t) EXCEPT !.pc = how])
    /\ max' = max - 1
    /\ UNCHANGED <<idle, inUse, conns, exc, failed, now, daemon, side, cache>> /\ Quiet

\* Mutant: the end of file of the second drain is not caught.
AfterEpipe_EofEscapes(out) ==
    IF out = "last" THEN "epipe" ELSE DrainExc(out)

\* What leaves the handler of SysError with errNo == EPIPE, whose
\* conn.processStderr() ended with out: the exception it threw, unless that is
\* EndOfFile, which is swallowed; else throw; rethrows the SysError.
AfterEpipe(out) ==
    IF out \in {"last", "eof"} THEN "epipe" ELSE DrainExc(out)

addCAToStoreDrain(t) ==
    /\ Running(t) /\ Top(t).op = "addCAToStore"
    /\ Top(t).pc \in {"sent", "epipe", "syserror", "srcerr"}
    /\ LET f == Top(t) IN
       CASE f.pc = "sent" -> DrainThenPath(t, f)
         [] f.pc = "epipe" ->
              \E out \in DrainOuts :
                  Leave(t, handleProcessStderr(f, out), AfterEpipe(out),
                        out, FALSE, "none", "to")
         [] OTHER -> Leave(t, f, f.pc, "none", FALSE, "none", "none")
    /\ UNCHANGED Frozen

addCAToStoreQueryPathInfo(t) ==
    /\ Running(t) /\ Top(t).op = "addCAToStore"
    /\ Top(t).pc \in {"qpi", "ret"}
    /\ IF Top(t).pc = "qpi"
       THEN /\ stack' = Push(t, [Top(t) EXCEPT !.pc = "ret"], NewFrame("queryPathInfo", 0, "none"))
            /\ UNCHANGED <<idle, inUse, conns, exc>> /\ Quiet
       ELSE Leave(t, Top(t), "ok", "none", FALSE, "none", "none")
    /\ UNCHANGED Frozen

\* An exception of a callee passes through the caller's frame: its handle
\* is destroyed with the exception in flight (and the Finally of the upload
\* window runs decCapacity).
\* Mutant: decCapacity is called after the streaming instead of in a
\* Finally, so an exception skips it.
UnwindCapacity_NoFinally(f, m) == m

\* The capacity after an exception left frame f: the Finally of the upload
\* window runs connections->decCapacity().
UnwindCapacity(f, m) == IF f.op = "addCAToStore" /\ f.pc = "window" THEN m - 1 ELSE m

Unwind(t) ==
    /\ exc[t] # "none"
    /\ stack[t] # <<>>
    /\ max' = UnwindCapacity(Top(t), max)
    /\ Leave(t, Top(t), exc[t], "none", FALSE, "none", "none")
    /\ UNCHANGED <<failed, now, daemon, side, cache>>

(***************************************************************************)
(* Spec: callers on NThreads threads against one RemoteStore.              *)
(***************************************************************************)
DaemonMinors == {11, 18, 22}

Init ==
    /\ idle = <<>>
    /\ inUse = 0
    /\ max \in 1..MaxCapacity
    /\ failed = FALSE
    /\ conns = [c \in 1..MaxConns |-> NoConn]
    /\ now = 0
    /\ daemon \in [minor : DaemonMinors]
    /\ stack = [t \in Threads |-> <<>>]
    /\ exc = [t \in Threads |-> "none"]
    /\ ev = NoEv
    /\ cache = {}
    /\ ps = NoPs /\ gr = NoGr /\ fu = NoFu /\ ux = NoUx /\ rt = NoRt /\ qv = NoQv /\ rq = NoRq

Next ==
    \/ \E t \in Threads : Call(t)
    \/ \E t \in Threads : PoolGet(t)
    \/ \E t \in Threads : openConnectionWrapper(t)
    \/ \E t \in Threads : factoryInit(t)
    \/ \E t \in Threads : isValidPathUncached(t)
    \/ \E t \in Threads : narFromPath(t)
    \/ \E t \in Threads : getProtocol(t)
    \/ \E t \in Threads : queryValidPaths(t)
    \/ \E t \in Threads : queryValidPathsLoop(t)
    \/ \E t \in Threads : queryDerivationOutputs(t)
    \/ \E t \in Threads : queryDerivationOutputsReturn(t)
    \/ \E t \in Threads : queryPartialDerivationOutputMap(t)
    \/ \E t \in Threads : queryMissing(t)
    \/ \E t \in Threads : queryMissingFallback(t)
    \/ \E t \in Threads : queryPathInfoUncached(t)
    \/ \E t \in Threads : collectGarbage(t)
    \/ \E t \in Threads : addCAToStore(t)
    \/ \E t \in Threads : addCAToStoreSource(t)
    \/ \E t \in Threads : addCAToStoreSent(t)
    \/ \E t \in Threads : addCAToStoreDrain(t)
    \/ \E t \in Threads : addCAToStoreQueryPathInfo(t)
    \/ \E t \in Threads : Unwind(t)
    \/ flushBadConnections
    \/ Tick

Spec == Init /\ [][Next]_vars

TypeOK ==
    /\ inUse \in 0..(NThreads * 3)
    /\ max \in 1..(MaxCapacity + NThreads)
    /\ \A i \in 1..Len(idle) : conns[idle[i]].st = "live"
    /\ \A i, j \in 1..Len(idle) : i # j => idle[i] # idle[j]

(***************************************************************************)
(* SpecFramed: one run of ConnectionHandle::withFramedSink, the caller's   *)
(* thread and the stderr thread interleaved, then the read of the response *)
(* (as in addCAToStore against a daemon of minor >= 25).                   *)
(*   pc:      where the caller's thread is                                 *)
(*   worker:  "none", "running" or "finished" (the stderr thread)          *)
(*   ex:      the exception_ptr the stderr thread captured ("null": none)  *)
(*   flying:  the exception in flight on the caller's thread               *)
(*   log:     "close" (~FramedSink), "join", "leave", in order             *)
(***************************************************************************)
FramedDrains == OpDrains \cup {EncMsgs(<<MsgRead>>), EncMsgs(<<MsgStartBad>>),
                               EncMsgs(<<MsgStart, MsgLast>>), EncMsgs(<<MsgStop, MsgError>>)}

FunOutcomes == {"return", "srcerr", "epipe"}

FramedInit ==
    /\ PoolIdleInit
    /\ ps = NoPs /\ gr = NoGr /\ ux = NoUx /\ rt = NoRt /\ qv = NoQv /\ rq = NoRq
    /\ \E d \in FramedDrains, fun \in FunOutcomes, flushOk \in BOOLEAN :
          fu = [pc |-> "flush", worker |-> "none", ex |-> "null", dexc |-> FALSE,
                sink |-> "none", joined |-> FALSE, flying |-> "none", threw |-> "none",
                suppressed |-> "null", out |-> "none", log |-> <<>>,
                drain |-> d, fun |-> fun, flushOk |-> flushOk]

FramedFrame == UNCHANGED <<poolVars, ps, gr, ux, rt, qv, rq>>

\* (*this)->to.flush(); then the stderr thread, the Finally and the
\* FramedSink are constructed.
FramedStart ==
    /\ fu.pc = "flush"
    /\ fu' = IF fu.flushOk
             THEN [fu EXCEPT !.pc = "fun", !.worker = "running", !.sink = "open"]
             ELSE [fu EXCEPT !.pc = "leave", !.flying = "epipe"]
    /\ FramedFrame

\* The stderr thread: processStderr(nullptr, nullptr, false) of the handle,
\* whose exception is captured in ex.
FramedWorkerEnds(out) ==
    [fu EXCEPT !.worker = "finished",
               !.dexc = handleProcessStderr(fu, out).dexc,
               !.ex = IF out = "last" THEN "null" ELSE DrainExc(out)]

FramedWorker ==
    /\ fu.pc # "none"
    /\ fu.worker = "running"
    /\ fu' = FramedWorkerEnds(DrainOut(fu.drain))
    /\ FramedFrame

\* fun(sink); sink.flush(); either may throw.
FramedFun ==
    /\ fu.pc = "fun"
    /\ fu' = IF fu.fun = "return"
             THEN [fu EXCEPT !.pc = "close"]
             ELSE [fu EXCEPT !.pc = "close", !.flying = fu.fun, !.threw = fu.fun]
    /\ FramedFrame

\* ~FramedSink at the end of the block, also when unwinding: the
\* zero-length frame, best effort.
FramedClose ==
    /\ fu.pc = "close"
    /\ fu' = [fu EXCEPT !.sink = "closed", !.log = Append(@, "close"),
                        !.pc = IF fu.flying = "none" THEN "join" ELSE "finally"]
    /\ FramedFrame

\* stderrThread.join(); if (ex) std::rethrow_exception(ex);
FramedJoin ==
    /\ fu.pc = "join"
    /\ fu.worker = "finished"
    /\ fu' = [fu EXCEPT !.joined = TRUE, !.log = Append(@, "join"), !.pc = "leave",
                        !.flying = IF fu.ex # "null" THEN fu.ex ELSE "none"]
    /\ FramedFrame

\* Mutant: the Finally lets the stderr thread's exception out.
FinallyFlying_Rethrows(ex, flying) == IF ex # "null" THEN ex ELSE flying

\* The exception in flight after joinStderrThread ran with ex captured:
\* rethrow_exception(ex) inside try / catch (...) { ignoreException(); }.
FinallyFlying(ex, flying) == flying

\* Mutant: the Finally does not wait for the stderr thread.
FinallyJoins_Never(joinable) == FALSE

\* if (stderrThread.joinable()) stderrThread.join();
FinallyJoins(joinable) == joinable

\* joinStderrThread, the Finally, when the block was left by an exception.
FramedFinally ==
    /\ fu.pc = "finally"
    /\ IF FinallyJoins(~fu.joined)
       THEN /\ fu.worker = "finished"
            /\ fu' = [fu EXCEPT !.joined = TRUE, !.log = Append(@, "join"), !.pc = "leave",
                                !.suppressed = fu.ex,
                                !.flying = FinallyFlying(fu.ex, fu.flying)]
       ELSE fu' = [fu EXCEPT !.pc = "leave"]
    /\ FramedFrame

\* Control leaves withFramedSink, normally or with the exception in flight.
FramedLeave ==
    /\ fu.pc = "leave"
    /\ fu' = [fu EXCEPT !.pc = "done", !.log = Append(@, "leave"),
                        !.out = IF fu.flying = "none" THEN "ok" ELSE fu.flying]
    /\ FramedFrame

\* auto path = parseStorePath(readString(conn->from));
FramedResponse ==
    /\ fu.pc = "done"
    /\ fu.out = "ok"
    /\ fu' = [fu EXCEPT !.pc = "response"]
    /\ FramedFrame

FramedNext ==
    \/ FramedStart
    \/ FramedWorker
    \/ FramedFun
    \/ FramedClose
    \/ FramedJoin
    \/ FramedFinally
    \/ FramedLeave
    \/ FramedResponse

SpecFramed == FramedInit /\ [][FramedNext]_vars

\* The position of event e in the log (0: not there).
RECURSIVE LogAt(_, _, _)
LogAt(log, e, i) ==
    IF i > Len(log) THEN 0 ELSE IF log[i] = e THEN i ELSE LogAt(log, e, i + 1)

\* C11: when the caller's write function threw, the exception that leaves
\* withFramedSink is that one; an exception the stderr thread captured was
\* swallowed by the Finally and is not what leaves.
C11_CallerExceptionWins ==
    (fu.pc \in {"leave", "done"} /\ fu.threw # "none") =>
        /\ fu.flying = fu.threw
        /\ fu.pc = "done" => fu.out = fu.threw
        /\ fu.suppressed = fu.ex

\* C11 witness: the caller threw, the stderr thread captured the daemon's
\* error, and control has left withFramedSink.
C11_Witness ==
    /\ fu.pc = "done"
    /\ fu.threw = "srcerr"
    /\ fu.ex = "daemon"
    /\ fu.out = "srcerr"

\* C12: once the stderr thread exists, the FramedSink is closed before the
\* thread is joined and the thread is joined before control leaves
\* withFramedSink, whether the write function returned or threw; the
\* response is read only after the thread finished with LAST.
C12_CloseJoinLeave ==
    /\ fu.joined =>
          /\ LogAt(fu.log, "close", 1) > 0
          /\ LogAt(fu.log, "close", 1) < LogAt(fu.log, "join", 1)
          /\ fu.worker = "finished"
    /\ (fu.pc = "done" /\ fu.worker # "none") =>
          /\ fu.joined
          /\ fu.worker = "finished"
          /\ LogAt(fu.log, "join", 1) < LogAt(fu.log, "leave", 1)
    /\ fu.pc = "response" =>
          /\ fu.worker = "finished"
          /\ fu.joined
          /\ fu.ex = "null"
          /\ DrainOut(fu.drain) = "last"

\* C12 witness: the write function threw, and control has left after the
\* close and the join.
C12_Witness ==
    /\ fu.pc = "done"
    /\ fu.threw = "epipe"
    /\ fu.log = <<"close", "join", "leave">>

(***************************************************************************)
(* SpecOpen: one call of UDSRemoteStore::openConnection.                   *)
(*   len:    socketPath.size()                                             *)
(*   copied: the bytes strcpy wrote into addr.sun_path, terminator included*)
(***************************************************************************)
\* sizeof(addr.sun_path)
SunPathSize == 108

MaxPathLen == 110

OpenInit ==
    /\ PoolIdleInit
    /\ ps = NoPs /\ gr = NoGr /\ fu = NoFu /\ rt = NoRt /\ qv = NoQv /\ rq = NoRq
    /\ \E n \in 0..MaxPathLen : ux = [pc |-> "socket", len |-> n, copied |-> 0, out |-> "none"]

OpenFrame == UNCHANGED <<poolVars, ps, gr, fu, rt, qv, rq>>

\* conn->fd = socket(PF_UNIX, SOCK_STREAM, 0); if (!conn->fd) throw SysError
OpenSocket ==
    /\ ux.pc = "socket"
    /\ \E ok \in BOOLEAN :
          ux' = IF ok THEN [ux EXCEPT !.pc = "check"]
                ELSE [ux EXCEPT !.pc = "done", !.out = "syserror"]
    /\ OpenFrame

\* if (socketPath.size() + 1 >= sizeof(addr.sun_path)) throw Error(... too long)
PathTooLong(n) == n + 1 >= SunPathSize

OpenCheck ==
    /\ ux.pc = "check"
    /\ ux' = IF PathTooLong(ux.len)
             THEN [ux EXCEPT !.pc = "done", !.out = "toolong"]
             ELSE [ux EXCEPT !.pc = "strcpy"]
    /\ OpenFrame

\* strcpy(addr.sun_path, socketPath.c_str()): the characters and the
\* terminating zero.
OpenStrcpy ==
    /\ ux.pc = "strcpy"
    /\ ux' = [ux EXCEPT !.pc = "connect", !.copied = ux.len + 1]
    /\ OpenFrame

\* ::connect(...) == -1: throw SysError; else the connection is returned.
OpenConnect ==
    /\ ux.pc = "connect"
    /\ \E ok \in BOOLEAN :
          ux' = [ux EXCEPT !.pc = "done", !.out = IF ok THEN "connected" ELSE "syserror"]
    /\ OpenFrame

OpenNext ==
    \/ OpenSocket
    \/ OpenCheck
    \/ OpenStrcpy
    \/ OpenConnect

SpecOpen == OpenInit /\ [][OpenNext]_vars

\* C14: openConnection accepts a socket path of length sizeof(sun_path) - 1
\* (it goes on to connect), rejects as too long a path of length
\* sizeof(sun_path) or more, and never copies more than sizeof(sun_path)
\* bytes into the address buffer.
C14_PathLengthBoundary ==
    /\ ux.copied <= SunPathSize
    /\ ux.out = "toolong" => ux.len >= SunPathSize - 1
    /\ (ux.pc \in {"strcpy", "connect"} \/ ux.out = "connected") => ux.len < SunPathSize
    /\ (ux.pc = "done" /\ ux.len >= SunPathSize) => ux.out \in {"toolong", "syserror"}
    /\ (ux.pc = "done" /\ ux.len = SunPathSize - 1) => ux.out # "toolong"

(***************************************************************************)
(* SpecRoundTrip: writeStorePaths / readStorePaths and                     *)
(* writeStorePathCAMap / readStorePathCAMap over a stream of bytes.        *)
(* A number is eight bytes, least significant first; a string is its       *)
(* length, its bytes and zero bytes up to a multiple of eight.             *)
(***************************************************************************)
MaxNameLen == 2

MaxEntries == 2

\* The bytes of names ('a', 'b') and of hashes ('1').
NameBytes == {97, 98}

HashBytes == {49}

Slash == 47

Colon == 58

\* "/s", the store directory.
StoreDir == <<Slash, 115>>

Zeros(n) == [i \in 1..n |-> 0]

\* The zero bytes after a string of n bytes.
PadLen(n) == (8 - (n % 8)) % 8

writeNum(n) == <<n % 256, (n \div 256) % 256>> \o Zeros(6)

writeString(str) == writeNum(Len(str)) \o str \o Zeros(PadLen(Len(str)))

RECURSIVE LittleEndian(_, _, _)
LittleEndian(w, pos, i) ==
    IF i = 0 THEN 0 ELSE w[pos + 1] + 256 * LittleEndian(w, pos + 1, i - 1)

readNumBytes(w, pos) ==
    IF pos + 8 <= Len(w) THEN [st |-> "ok", pos |-> pos + 8, v |-> LittleEndian(w, pos, 8)]
    ELSE [st |-> "eof", pos |-> Len(w), v |-> 0]

readStringBytes(w, pos) ==
    LET n == readNumBytes(w, pos) IN
    IF n.st # "ok" THEN [st |-> n.st, pos |-> n.pos, v |-> <<>>]
    ELSE LET end == n.pos + n.v
             pad == PadLen(n.v)
         IN IF end + pad > Len(w) THEN [st |-> "eof", pos |-> Len(w), v |-> <<>>]
            ELSE IF SubSeq(w, end + 1, end + pad) # Zeros(pad)
            THEN [st |-> "badpadding", pos |-> end + pad, v |-> <<>>]
            ELSE [st |-> "ok", pos |-> end + pad, v |-> SubSeq(w, n.pos + 1, end)]

\* Store::printStorePath: the store directory, a slash, the base name.
printStorePath(p) == StoreDir \o <<Slash>> \o p

\* Store::parseStorePath: the base name of a path in the store directory.
parseStorePath(str) ==
    LET n == Len(StoreDir) + 1 IN
    IF Len(str) > n /\ SubSeq(str, 1, n) = StoreDir \o <<Slash>>
    THEN [st |-> "ok", v |-> SubSeq(str, n + 1, Len(str))]
    ELSE [st |-> "badpath", v |-> <<>>]

NoCA == [method |-> "none", hash |-> 0]

\* renderContentAddress(std::optional<ContentAddress>): "" when absent.
renderContentAddress(ca) ==
    IF ca = NoCA THEN <<>>
    ELSE <<IF ca.method = "text" THEN 116 ELSE 102, Colon, ca.hash>>

\* parseContentAddressOpt: absent when the string is empty.
parseContentAddressOpt(str) ==
    IF str = <<>> THEN [st |-> "ok", v |-> NoCA]
    ELSE IF Len(str) = 3 /\ str[1] \in {116, 102} /\ str[2] = Colon
    THEN [st |-> "ok", v |-> [method |-> IF str[1] = 116 THEN "text" ELSE "fixed",
                               hash |-> str[3]]]
    ELSE [st |-> "badca", v |-> NoCA]

\* The order of std::set<StorePath> and std::map<StorePath, ...>.
RECURSIVE Less(_, _)
Less(a, b) ==
    IF a = <<>> THEN b # <<>>
    ELSE IF b = <<>> THEN FALSE
    ELSE IF a[1] # b[1] THEN a[1] < b[1]
    ELSE Less(Tail(a), Tail(b))

First(S) == CHOOSE x \in S : \A y \in S \ {x} : Less(x, y)

\* for (auto & i : paths) out << store.printStorePath(i);
RECURSIVE writeStorePathsLoop(_)
writeStorePathsLoop(S) ==
    IF S = {} THEN <<>>
    ELSE writeString(printStorePath(First(S))) \o writeStorePathsLoop(S \ {First(S)})

\* Mutant: the count is not written.
writeStorePaths_NoSize(paths) == writeStorePathsLoop(paths)

writeStorePaths(paths) == writeNum(Cardinality(paths)) \o writeStorePathsLoop(paths)

\* readStrings<Strings>: a count, then that many strings.
RECURSIVE readStringsLoop(_, _, _, _)
readStringsLoop(w, pos, n, acc) ==
    IF n = 0 THEN [st |-> "ok", pos |-> pos, v |-> acc]
    ELSE LET x == readStringBytes(w, pos) IN
         IF x.st # "ok" THEN [st |-> x.st, pos |-> x.pos, v |-> acc]
         ELSE readStringsLoop(w, x.pos, n - 1, Append(acc, x.v))

readStrings(w, pos) ==
    LET n == readNumBytes(w, pos) IN
    IF n.st # "ok" THEN [st |-> n.st, pos |-> n.pos, v |-> <<>>]
    ELSE readStringsLoop(w, n.pos, n.v, <<>>)

\* for (auto & i : readStrings<Strings>(from)) paths.insert(store.parseStorePath(i));
readStorePaths(w, pos) ==
    LET ss == readStrings(w, pos) IN
    IF ss.st # "ok" THEN [st |-> ss.st, pos |-> ss.pos, v |-> {}]
    ELSE IF \E i \in 1..Len(ss.v) : parseStorePath(ss.v[i]).st # "ok"
    THEN [st |-> "badpath", pos |-> ss.pos, v |-> {}]
    ELSE [st |-> "ok", pos |-> ss.pos,
          v |-> {parseStorePath(ss.v[i]).v : i \in 1..Len(ss.v)}]

\* for (auto & i : paths) { out << printStorePath(i.first); out << renderContentAddress(i.second); }
RECURSIVE writeStorePathCAMapLoop(_, _)
writeStorePathCAMapLoop(m, S) ==
    IF S = {} THEN <<>>
    ELSE writeString(printStorePath(First(S))) \o writeString(renderContentAddress(m[First(S)]))
         \o writeStorePathCAMapLoop(m, S \ {First(S)})

writeStorePathCAMap(m) ==
    writeNum(Cardinality(DOMAIN m)) \o writeStorePathCAMapLoop(m, DOMAIN m)

\* paths.insert_or_assign(path, ca)
InsertOrAssign(m, k, ca) == [x \in DOMAIN m \cup {k} |-> IF x = k THEN ca ELSE m[x]]

\* while (count--) { path = parseStorePath(readString(from)); ca = parseContentAddressOpt(readString(from)); ... }
RECURSIVE readStorePathCAMapLoop(_, _, _, _)
readStorePathCAMapLoop(w, pos, count, m) ==
    IF count = 0 THEN [st |-> "ok", pos |-> pos, v |-> m]
    ELSE LET p == readStringBytes(w, pos) IN
         IF p.st # "ok" THEN [st |-> p.st, pos |-> p.pos, v |-> m]
         ELSE IF parseStorePath(p.v).st # "ok" THEN [st |-> "badpath", pos |-> p.pos, v |-> m]
         ELSE LET c == readStringBytes(w, p.pos) IN
              IF c.st # "ok" THEN [st |-> c.st, pos |-> c.pos, v |-> m]
              ELSE IF parseContentAddressOpt(c.v).st # "ok"
              THEN [st |-> "badca", pos |-> c.pos, v |-> m]
              ELSE readStorePathCAMapLoop(w, c.pos, count - 1,
                       InsertOrAssign(m, parseStorePath(p.v).v, parseContentAddressOpt(c.v).v))

readStorePathCAMap(w, pos) ==
    LET count == readNumBytes(w, pos) IN
    IF count.st # "ok" THEN [st |-> count.st, pos |-> count.pos, v |-> <<>>]
    ELSE readStorePathCAMapLoop(w, count.pos, count.v, [x \in {} |-> NoCA])

\* The base names, the sets of paths and the maps the round trip is run on.
Names == {q \in SeqsUpTo(NameBytes, MaxNameLen) : q # <<>>}

PathSets == {S \in SUBSET Names : Cardinality(S) <= MaxEntries}

CAs == {NoCA} \cup [method : {"text", "fixed"}, hash : HashBytes]

CAMaps == UNION {[S -> CAs] : S \in PathSets}

\* What follows on the stream: nothing, or the next number.
Tails == {<<>>, writeNum(1)}

RoundTripInit ==
    /\ PoolIdleInit
    /\ ps = NoPs /\ gr = NoGr /\ fu = NoFu /\ ux = NoUx /\ qv = NoQv /\ rq = NoRq
    /\ \/ \E S \in PathSets, tl \in Tails :
             rt = [pc |-> "write", kind |-> "paths", paths |-> S, map |-> <<>>,
                   tail |-> tl, wire |-> <<>>, wrote |-> 0, res |-> [st |-> "none"]]
       \/ \E m \in CAMaps, tl \in Tails :
             rt = [pc |-> "write", kind |-> "camap", paths |-> {}, map |-> m,
                   tail |-> tl, wire |-> <<>>, wrote |-> 0, res |-> [st |-> "none"]]

RoundTripFrame == UNCHANGED <<poolVars, ps, gr, fu, ux, qv, rq>>

\* The writer's bytes, then whatever follows on the stream.
Written(enc, tl) == [rt EXCEPT !.pc = "read", !.wire = enc \o tl, !.wrote = Len(enc)]

RtWriteStorePaths ==
    /\ rt.pc = "write" /\ rt.kind = "paths"
    /\ rt' = Written(writeStorePaths(rt.paths), rt.tail)
    /\ RoundTripFrame

RtWriteStorePathCAMap ==
    /\ rt.pc = "write" /\ rt.kind = "camap"
    /\ rt' = Written(writeStorePathCAMap(rt.map), rt.tail)
    /\ RoundTripFrame

RtReadStorePaths ==
    /\ rt.pc = "read" /\ rt.kind = "paths"
    /\ rt' = [rt EXCEPT !.pc = "done", !.res = readStorePaths(rt.wire, 0)]
    /\ RoundTripFrame

RtReadStorePathCAMap ==
    /\ rt.pc = "read" /\ rt.kind = "camap"
    /\ rt' = [rt EXCEPT !.pc = "done", !.res = readStorePathCAMap(rt.wire, 0)]
    /\ RoundTripFrame

RoundTripNext ==
    \/ RtWriteStorePaths
    \/ RtWriteStorePathCAMap
    \/ RtReadStorePaths
    \/ RtReadStorePathCAMap

SpecRoundTrip == RoundTripInit /\ [][RoundTripNext]_vars

\* C17: reading back what writeStorePaths wrote yields the set written, and
\* reading back what writeStorePathCAMap wrote yields the map written,
\* entries without a content address, the empty set and the empty map
\* included; the reader stops exactly where the writer's bytes end.
C17_RoundTrip ==
    rt.pc = "done" =>
        /\ rt.res.st = "ok"
        /\ rt.res.pos = rt.wrote
        /\ rt.kind = "paths" => rt.res.v = rt.paths
        /\ rt.kind = "camap" => rt.res.v = rt.map

\* C17 witness: a map of two paths, one of them without content address,
\* has been written and read back in front of further bytes.
C17_Witness ==
    /\ rt.pc = "done"
    /\ rt.kind = "camap"
    /\ Cardinality(DOMAIN rt.map) = 2
    /\ \E k \in DOMAIN rt.map : rt.map[k] = NoCA
    /\ \E k \in DOMAIN rt.map : rt.map[k] # NoCA
    /\ rt.tail # <<>>
    /\ rt.res.v = rt.map

(***************************************************************************)
(* SpecValid: one call of queryValidPaths(P) by the only caller of a store *)
(* whose daemon holds the valid paths V.                                   *)
(*   inUse, max: the pool's count of leases and its capacity               *)
(*   todo:       the paths the loop has not asked about yet                *)
(***************************************************************************)
ValidMinors == {11, 12}

ValidInit ==
    /\ PoolIdleInit
    /\ ps = NoPs /\ gr = NoGr /\ fu = NoFu /\ ux = NoUx /\ rt = NoRt /\ rq = NoRq
    /\ \E P \in PathSets, V \in PathSets, m \in ValidMinors, cap \in 1..MaxCapacity :
          qv = [pc |-> "get", minor |-> m, max |-> cap, inUse |-> 0, P |-> P, V |-> V,
                todo |-> {}, res |-> {}]

ValidFrame == UNCHANGED <<poolVars, ps, gr, fu, ux, rt, rq>>

\* auto conn(getConnection());
ValidGetConnection ==
    /\ qv.pc = "get"
    /\ qv.inUse < qv.max
    /\ qv' = [qv EXCEPT !.pc = "body", !.inUse = @ + 1]
    /\ ValidFrame

\* The daemon's answer to wopQueryValidPaths: the valid ones of the paths
\* it read.
DaemonQueryValidPaths(req, V) == writeStorePaths(readStorePaths(req, 0).v \cap V)

\* if (minor < 12) { the loop } else { one wopQueryValidPaths request }
ValidBody ==
    /\ qv.pc = "body"
    /\ qv' = IF qv.minor < 12
             THEN [qv EXCEPT !.pc = "loop", !.todo = qv.P]
             ELSE [qv EXCEPT !.pc = "done", !.inUse = @ - 1,
                             !.res = readStorePaths(
                                 DaemonQueryValidPaths(writeStorePaths(qv.P), qv.V), 0).v]
    /\ ValidFrame

\* for (auto & i : paths): the next path, or return res.
ValidLoop ==
    /\ qv.pc = "loop"
    /\ qv' = IF qv.todo = {}
             THEN [qv EXCEPT !.pc = "done", !.inUse = @ - 1]
             ELSE [qv EXCEPT !.pc = "isValidPath"]
    /\ ValidFrame

\* if (isValidPath(i)) res.insert(i): isValidPathUncached takes its own
\* lease from the pool, asks the daemon and gives the lease back.
ValidIsValidPath ==
    /\ qv.pc = "isValidPath"
    /\ qv.inUse < qv.max
    /\ LET i == First(qv.todo)
       IN qv' = [qv EXCEPT !.pc = "loop", !.todo = @ \ {i},
                           !.res = IF i \in qv.V THEN @ \cup {i} ELSE @]
    /\ ValidFrame

ValidNext ==
    \/ ValidGetConnection
    \/ ValidBody
    \/ ValidLoop
    \/ ValidIsValidPath

SpecValid == ValidInit /\ [][ValidNext]_vars

\* C16: queryValidPaths(P) against a daemon with valid set V returns, and
\* returns exactly the intersection of P and V, by the loop (minor < 12) as
\* by the batched request (minor >= 12): the call is never stuck in the
\* loop, and what it returns is the intersection.
C16_ReturnsIntersection ==
    /\ qv.pc = "done" => qv.res = qv.P \cap qv.V
    /\ ~(qv.pc = "isValidPath" /\ qv.inUse >= qv.max)

(***************************************************************************)
(* SpecAddNar: one call of addToStore(info, source, ...) on a leased       *)
(* connection to a daemon of some minor.                                   *)
(*   sent:      what the client wrote to conn->to up front, in order       *)
(*   transport: the branch taken for the payload                           *)
(*   source:    whether the drain was given a source to serve READ from    *)
(*   drain:     the stderr the daemon sends; imported: the size of the set *)
(*              of imported paths an old daemon answers with               *)
(***************************************************************************)
NarMinors == 16..24

NarDrains == {EncMsgs(<<MsgLast>>), EncMsgs(<<MsgNext, MsgLast>>),
              EncMsgs(<<MsgRead, MsgLast>>), EncMsgs(<<MsgError>>)}

MaxImported == 2

AddNarInit ==
    /\ PoolIdleInit
    /\ ps = NoPs /\ gr = NoGr /\ fu = NoFu /\ ux = NoUx /\ rt = NoRt /\ qv = NoQv
    /\ \E m \in NarMinors, d \in NarDrains, n \in 0..MaxImported :
          rq = [pc |-> "header", op |-> "addToStore", minor |-> m, drain |-> d,
                imported |-> n, sent |-> <<>>, transport |-> "none", source |-> FALSE,
                drained |-> "none", out |-> "none"]

AddNarFrame == UNCHANGED <<poolVars, ps, gr, fu, ux, rt, qv>>

\* if (minor < 18) conn->to << wopImportPaths; else conn->to << wopAddToStoreNar << ...
addToStoreHeader ==
    /\ rq.op = "addToStore" /\ rq.pc = "header"
    /\ rq' = IF rq.minor < 18
             THEN [rq EXCEPT !.pc = "payload", !.sent = <<"wopImportPaths">>]
             ELSE [rq EXCEPT !.pc = "payload", !.sent = <<"wopAddToStoreNar", "info">>]
    /\ AddNarFrame

\* Mutant: the READ transport starts one version late.
Transport_From22(minor) ==
    IF minor < 18 THEN "import"
    ELSE IF minor >= 23 THEN "framed"
    ELSE IF minor > 21 THEN "source"
    ELSE "raw"

\* The branch of addToStore taken for a daemon of the given minor.
Transport(minor) ==
    IF minor < 18 THEN "import"
    ELSE IF minor >= 23 THEN "framed"
    ELSE IF minor >= 21 THEN "source"
    ELSE "raw"

\* What the branch writes before the drain, and whether the drain gets a
\* source: the wrapper (sinkToSource) and the NAR source are handed to
\* processStderr, the frames and the raw copy go to the writer.
addToStorePayload ==
    /\ rq.op = "addToStore" /\ rq.pc = "payload"
    /\ LET tr == Transport(rq.minor)
       IN rq' = [rq EXCEPT !.pc = "drain", !.transport = tr,
                           !.source = (tr \in {"import", "source"}),
                           !.sent = CASE tr = "framed" -> Append(@, "frames")
                                      [] tr = "raw" -> Append(@, "nar")
                                      [] OTHER -> @]
    /\ AddNarFrame

\* conn.processStderr(0, source): the drain, concurrent with the frames on
\* the framed branch; the daemon's ERROR and the protocol errors end the
\* call.
AddNarDrained(out) ==
    IF out = "last"
    THEN [rq EXCEPT !.drained = out,
                    !.pc = IF rq.transport = "import" THEN "imported" ELSE "done",
                    !.out = IF rq.transport = "import" THEN "none" ELSE "ok"]
    ELSE [rq EXCEPT !.drained = out, !.pc = "done", !.out = DrainExc(out)]

addToStoreDrain ==
    /\ rq.op = "addToStore" /\ rq.pc = "drain"
    /\ rq' = AddNarDrained(processStderr(rq.drain, 0, FALSE, rq.source).out)
    /\ AddNarFrame

\* auto importedPaths = readStorePaths(...); assert(importedPaths.size() <= 1);
addToStoreImported ==
    /\ rq.op = "addToStore" /\ rq.pc = "imported"
    /\ rq' = [rq EXCEPT !.pc = "done", !.out = IF rq.imported <= 1 THEN "ok" ELSE "abort"]
    /\ AddNarFrame

AddNarNext ==
    \/ addToStoreHeader
    \/ addToStorePayload
    \/ addToStoreDrain
    \/ addToStoreImported

SpecAddNar == AddNarInit /\ [][AddNarNext]_vars

\* A daemon that asks with READ exactly when its version reads the payload
\* that way (minor < 18 and 21 <= minor < 23) and reports no error.
AsksAsItsVersion(minor, d) ==
    IF minor < 18 \/ (minor >= 21 /\ minor < 23)
    THEN d = EncMsgs(<<MsgRead, MsgLast>>)
    ELSE d \in {EncMsgs(<<MsgLast>>), EncMsgs(<<MsgNext, MsgLast>>)}

\* C24: the transport of addToStore is fixed by the daemon's minor, one
\* branch per version: framed from 23, READ served from the NAR source
\* with nothing of the payload sent up front for 21 and 22, a raw copy then
\* a drain without source for 18 to 20, the IMPORT_PATHS wrapper below 18
\* with at most one imported path accepted; so the call succeeds against a
\* daemon that asks for the payload the way its version does.
C24_TransportByMinor ==
    /\ rq.pc \in {"drain", "imported", "done"} =>
          /\ rq.minor >= 23 =>
                (rq.transport = "framed" /\ ~rq.source
                 /\ rq.sent = <<"wopAddToStoreNar", "info", "frames">>)
          /\ (rq.minor >= 21 /\ rq.minor < 23) =>
                (rq.transport = "source" /\ rq.source
                 /\ rq.sent = <<"wopAddToStoreNar", "info">>)
          /\ (rq.minor >= 18 /\ rq.minor < 21) =>
                (rq.transport = "raw" /\ ~rq.source
                 /\ rq.sent = <<"wopAddToStoreNar", "info", "nar">>)
          /\ rq.minor < 18 =>
                (rq.transport = "import" /\ rq.source /\ rq.sent = <<"wopImportPaths">>)
    /\ (rq.pc = "done" /\ rq.out = "ok" /\ rq.minor < 18) => rq.imported <= 1
    /\ (rq.pc = "done" /\ AsksAsItsVersion(rq.minor, rq.drain)) =>
          rq.out = IF rq.minor < 18 /\ rq.imported > 1 THEN "abort" ELSE "ok"

\* C24 witness: against a daemon of minor 21 that asked with READ the call
\* has succeeded without sending the NAR up front.
C24_Witness ==
    /\ rq.op = "addToStore"
    /\ rq.pc = "done"
    /\ rq.minor = 21
    /\ rq.drain = EncMsgs(<<MsgRead, MsgLast>>)
    /\ rq.out = "ok"

(***************************************************************************)
(* SpecBuild: one call of buildPaths on a leased connection, with the      *)
(* buffered writer and the end of the lease.                               *)
(*   buf: the words written to conn->to and not yet flushed                *)
(*   got: the words delivered to the daemon                                *)
(*   bad: the lease marked the connection bad; a bad connection is         *)
(*        destroyed by the pool, a good one goes back to the idle list     *)
(***************************************************************************)
BuildMinors == 12..16

BuildModes == {"bmNormal", "bmRepair", "bmCheck"}

MaxPaths == 2

BuildDrains == {EncMsgs(<<MsgLast>>), EncMsgs(<<MsgError>>), <<>>}

BuildInit ==
    /\ PoolIdleInit
    /\ ps = NoPs /\ gr = NoGr /\ fu = NoFu /\ ux = NoUx /\ rt = NoRt /\ qv = NoQv
    /\ \E m \in BuildMinors, bm \in BuildModes, n \in 0..MaxPaths, d \in BuildDrains :
          rq = [pc |-> "op", op |-> "buildPaths", minor |-> m, mode |-> bm, paths |-> n,
                drain |-> d, buf |-> <<>>, got |-> <<>>, drained |-> "none",
                read |-> FALSE, out |-> "none", bad |-> FALSE]

BuildFrame == UNCHANGED <<poolVars, ps, gr, fu, ux, rt, qv>>

\* conn->to << wopBuildPaths; assert(GET_PROTOCOL_MINOR(...) >= 13);
\* a failed assert aborts the process, no destructor runs.
buildPathsOp ==
    /\ rq.op = "buildPaths" /\ rq.pc = "op"
    /\ rq' = IF rq.minor >= 13
             THEN [rq EXCEPT !.pc = "paths", !.buf = Append(@, "wopBuildPaths")]
             ELSE [rq EXCEPT !.pc = "aborted", !.buf = Append(@, "wopBuildPaths"),
                             !.out = "abort"]
    /\ BuildFrame

\* conn->to << ss: the count, then each path.
buildPathsStrings ==
    /\ rq.op = "buildPaths" /\ rq.pc = "paths"
    /\ rq' = [rq EXCEPT !.pc = "mode",
                        !.buf = @ \o <<rq.paths>> \o [i \in 1..rq.paths |-> "path"]]
    /\ BuildFrame

\* Mutant: the build mode is validated for every daemon.
BuildModeStep_AlwaysValidate(r) ==
    IF r.mode # "bmNormal"
    THEN [r EXCEPT !.pc = "unwind", !.out = "Error"]
    ELSE [r EXCEPT !.pc = "drain"]

\* if (minor >= 15) conn->to << buildMode;
\* else if (buildMode != bmNormal) throw Error("repairing or checking ...");
BuildModeStep(r) ==
    IF r.minor >= 15
    THEN [r EXCEPT !.pc = "drain", !.buf = Append(@, r.mode)]
    ELSE IF r.mode # "bmNormal"
    THEN [r EXCEPT !.pc = "unwind", !.out = "Error"]
    ELSE [r EXCEPT !.pc = "drain"]

buildPathsMode ==
    /\ rq.op = "buildPaths" /\ rq.pc = "mode"
    /\ rq' = BuildModeStep(rq)
    /\ BuildFrame

\* conn.processStderr(): flushes the writer, then drains; the daemon's ERROR
\* is rethrown by the handle with daemonException set.
buildPathsDrain ==
    /\ rq.op = "buildPaths" /\ rq.pc = "drain"
    /\ LET out == DrainOut(rq.drain)
       IN rq' = [rq EXCEPT !.got = @ \o rq.buf, !.buf = <<>>, !.drained = out,
                           !.pc = IF out = "last" THEN "read" ELSE "unwind",
                           !.out = IF out = "last" THEN "none" ELSE DrainExc(out)]
    /\ BuildFrame

\* readInt(conn->from);
buildPathsRead ==
    /\ rq.op = "buildPaths" /\ rq.pc = "read"
    /\ rq' = [rq EXCEPT !.pc = "unwind", !.read = TRUE, !.out = "ok"]
    /\ BuildFrame

\* ~ConnectionHandle: if (!daemonException && std::uncaught_exceptions())
\* handle.markBad();
HandleMarksBad(out) == out \notin {"ok", "daemon"}

buildPathsRelease ==
    /\ rq.op = "buildPaths" /\ rq.pc = "unwind"
    /\ rq' = [rq EXCEPT !.pc = "released", !.bad = HandleMarksBad(rq.out)]
    /\ BuildFrame

\* ~Connection: try { to.flush(); } catch (...) { ignoreException(); }
DestructorFlush(r) == [r EXCEPT !.pc = "destroyed", !.got = @ \o r.buf, !.buf = <<>>]

\* The pool drops a connection that was marked bad; its destructor runs.
buildPathsDestroy ==
    /\ rq.op = "buildPaths" /\ rq.pc = "released" /\ rq.bad
    /\ rq' = DestructorFlush(rq)
    /\ BuildFrame

BuildNext ==
    \/ buildPathsOp
    \/ buildPathsStrings
    \/ buildPathsMode
    \/ buildPathsDrain
    \/ buildPathsRead
    \/ buildPathsRelease
    \/ buildPathsDestroy

SpecBuild == BuildInit /\ [][BuildNext]_vars

\* The words of a BuildPaths request without a build mode.
BuildRequest(n) == <<"wopBuildPaths", n>> \o [i \in 1..n |-> "path"]

\* What the call has written, delivered or not.
BuildWritten == rq.got \o rq.buf

BuildPastMode == rq.pc \in {"drain", "read", "unwind", "released", "destroyed"}

\* C25: against 13 <= minor < 15 a build mode other than normal ends the
\* call with the client's error, with no drain and no response read;
\* against minor >= 15 the mode is written right after the path list and
\* the client never rejects; against minor < 15 with the normal mode no
\* build-mode word is written.
C25_BuildModeByMinor ==
    BuildPastMode =>
       /\ (rq.minor >= 13 /\ rq.minor < 15 /\ rq.mode # "bmNormal") =>
             (rq.out = "Error" /\ rq.drained = "none" /\ ~rq.read)
       /\ rq.minor >= 15 =>
             (BuildWritten = Append(BuildRequest(rq.paths), rq.mode) /\ rq.out # "Error")
       /\ (rq.minor < 15 /\ rq.mode = "bmNormal") =>
             (BuildWritten = BuildRequest(rq.paths) /\ rq.out # "Error")

\* C25 witness: a repair against a daemon of minor 14 was rejected and the
\* lease has ended.
C25_Witness ==
    /\ rq.op = "buildPaths"
    /\ rq.pc = "released"
    /\ rq.minor = 14
    /\ rq.mode = "bmRepair"
    /\ rq.out = "Error"

\* C26: when buildPaths rejects the build mode on the client, the daemon
\* receives nothing of the request, neither during the call nor when the
\* connection is destroyed.
C26_RejectedRequestNotDelivered ==
    (rq.op = "buildPaths" /\ rq.out = "Error") => rq.got = <<>>

(***************************************************************************)
(* Properties of the pool, the leases and the dispatcher.                  *)
(***************************************************************************)
\* The pool slots thread t occupies: its leases and its factory calls.
Slots(t) ==
    Cardinality({i \in 1..Len(stack[t]) :
                    stack[t][i].lease # "none" \/ stack[t][i].pc \in {"open", "init"}})

\* The last step ended an operation through a ConnectionHandle whose own
\* processStderr received ERROR.
DaemonErrorThroughLease == ev.drain = "error" /\ ev.op \notin BareHandleOps

C1_Kept ==
    DaemonErrorThroughLease =>
        /\ ev.out \in {"daemon", "invalidpath"}
        /\ conns[ev.conn].st = "live"
        /\ idle # <<>>
        /\ idle[Len(idle)] = ev.conn

C1_Reused ==
    \A t \in Threads :
        (/\ DaemonErrorThroughLease
         /\ Valid(ev.conn)
         /\ Running(t) /\ Top(t).pc = "get"
         /\ stack'[t] # stack[t])
        => /\ Len(stack'[t]) = Len(stack[t])
           /\ TopOf(stack', t).pc = "body"
           /\ TopOf(stack', t).conn = ev.conn
           /\ conns' = conns

\* C1: when an operation through a lease ends because its processStderr
\* received ERROR, the daemon's error is what the caller gets, the
\* connection is not destroyed and is the last element of idle; and the
\* next Pool::get, if the connection still passes the validator, leases that
\* connection and opens none.
C1_DaemonErrorKeepsConnection == []C1_Kept /\ [][C1_Reused]_vars

\* C1 witness: isValidPath has just ended with the daemon's error, its
\* connection is healthy, and another Pool::get is about to run.
C1_Witness ==
    /\ DaemonErrorThroughLease
    /\ ev.op = "isValidPath"
    /\ ev.out = "daemon"
    /\ Valid(ev.conn)
    /\ \E t \in Threads : Running(t) /\ Top(t).pc = "get"

\* C2: after an operation threw an error that is not the daemon's ERROR, the
\* connection it was using is destroyed or is not in idle.
C2_NonDaemonErrorDropsConnection ==
    (/\ ev.conn # 0
     /\ ev.out \notin {"ok", "none", "daemon"}
     /\ ~(ev.out = "invalidpath" /\ ev.drain = "error"))
    => \/ conns[ev.conn].st = "dead"
       \/ ev.conn \notin Elems(idle)

\* C3: no thread is in Pool::get, or holds a lease, in a frame above one of
\* its frames that holds a lease outside the incCapacity window.
C3_NoSecondLease ==
    \A t \in Threads : \A i, j \in 1..Len(stack[t]) :
        (/\ i < j
         /\ stack[t][i].lease # "none"
         /\ stack[t][i].pc # "window")
        => /\ stack[t][j].pc \notin {"get", "open", "init"}
           /\ stack[t][j].lease = "none"

C4_Latched ==
    /\ failed => failed'
    /\ \A t \in Threads :
          (failed /\ Running(t) /\ Top(t).pc = "open" /\ stack'[t] # stack[t])
          => /\ ev'.t = t
             /\ ev'.out = "unreachable"
             /\ Len(stack'[t]) = Len(stack[t]) - 1
             /\ conns' = conns
             /\ idle' = idle

C5_FactoryFailureLatches ==
    ev.stage \in {"open", "greet", "setopt"} =>
        /\ failed
        /\ ev.out \in {"openfail", "greetfail"}
        /\ ev.conn = 0
        /\ Len(stack[ev.t]) > 0 => exc[ev.t] = ev.out

\* C5 witness: the factory has just failed in setOptions.
C5_Witness == ev.stage = "setopt" /\ ev.out = "greetfail" /\ failed

\* C8: an operation reads response bytes only after its stderr drain ended
\* with LAST; when the drain ended with ERROR it raises the daemon's error
\* and has read no response byte.
C8_ResponseOnlyAfterLast ==
    /\ ev.resp => ev.drain = "last"
    /\ ev.drain = "error" => ev.out \in {"daemon", "invalidpath"}

\* C9: at the label fallback queryMissing holds no lease and has written
\* nothing; a store operation of the base computation is then never kept
\* waiting in Pool::get by its own thread: when no other thread occupies a
\* slot, Pool::get can go on.
C9_FallbackReleasesLease ==
    \A t \in Threads : \A i \in 1..Len(stack[t]) :
        (stack[t][i].op = "queryMissing" /\ stack[t][i].pc = "fallback") =>
            /\ stack[t][i].lease = "none"
            /\ stack[t][i].conn = 0
            /\ ~stack[t][i].wrote
            /\ (/\ i < Len(stack[t])
                /\ Running(t) /\ Top(t).pc = "get"
                /\ \A u \in Threads \ {t} : Slots(u) = 0)
               => ~(idle = <<>> /\ inUse >= max)

\* C9 witness: capacity 1, queryMissing is in the base computation and the
\* store operation that computation called holds the connection.
C9_Witness ==
    /\ max = 1
    /\ \E t \in Threads :
          /\ Len(stack[t]) = 2
          /\ stack[t][1].op = "queryMissing"
          /\ stack[t][1].pc = "fallback"
          /\ stack[t][2].pc = "body"
          /\ stack[t][2].lease # "none"

\* C10: in the state after an operation returned successfully the pool
\* has |idle| + inUse <= max.
C10_PoolWithinCapacity ==
    (ev.out = "ok" /\ ev.t # 0) => Len(idle) + inUse <= max

\* An idle connection with both streams good whose age in whole seconds
\* equals maxConnectionAge.
AtMaxAge(c) ==
    /\ conns[c].toGood
    /\ conns[c].fromGood
    /\ now - conns[c].start = MaxConnectionAge

\* A step in which thread t ran the locked part of Pool::get.
GetStep(t) == Running(t) /\ Top(t).pc = "get" /\ stack'[t] # stack[t]

\* A step of flushBadConnections that dropped something.
FlushStep == stack' = stack /\ idle' # idle

\* C13 as stated: an idle connection whose age equals max_connection_age
\* is reused by get() and kept by flush_bad().
C13_ReusedAtMaxAge ==
    [][/\ \A t \in Threads :
            (GetStep(t) /\ idle # <<>> /\ AtMaxAge(idle[Len(idle)])) =>
                TopOf(stack', t).conn = idle[Len(idle)]
       /\ FlushStep => \A c \in Elems(idle) : AtMaxAge(c) => c \in Elems(idle')]_vars

\* C13 amended: the validator accepts a connection iff both streams are
\* good and its age is strictly less than max_connection_age: get() leases
\* the last idle connection iff that holds of it, flush_bad() keeps exactly
\* the idle connections of which it holds, and a connection whose age
\* equals max_connection_age is destroyed by both.
C13_AgeStrictlyLess ==
    [][/\ \A t \in Threads :
            (GetStep(t) /\ idle # <<>>) =>
                LET p == idle[Len(idle)]
                IN /\ TopOf(stack', t).conn = p <=>
                          (conns[p].toGood /\ conns[p].fromGood
                           /\ now - conns[p].start < MaxConnectionAge)
                   /\ AtMaxAge(p) => (conns'[p].st = "dead" /\ p \notin Elems(idle'))
       /\ FlushStep =>
            \A c \in Elems(idle) :
                /\ c \in Elems(idle') <=>
                      (conns[c].toGood /\ conns[c].fromGood
                       /\ now - conns[c].start < MaxConnectionAge)
                /\ AtMaxAge(c) => conns'[c].st = "dead"]_vars

\* C13 witness: the pool has just dropped a connection with two good
\* streams for its age, at the first second at which a connection can have
\* the age max_connection_age.
C13_Witness ==
    /\ ev.stage = "expired"
    /\ now = MaxConnectionAge
    /\ conns[ev.conn].st = "dead"
    /\ ev.conn \notin Elems(idle)

\* C15: after a successful collectGarbage the path-info cache is empty; a
\* collectGarbage that failed leaves the cache as it was; and no step other
\* than a successful collectGarbage removes an entry from the cache.
C15_CacheClearedOnlyByGC ==
    /\ []((ev.op = "collectGarbage" /\ ev.out = "ok") => cache = {})
    /\ [][/\ (ev'.op = "collectGarbage" /\ ev'.out # "ok") => cache' = cache
          /\ ~(cache \subseteq cache') => (ev'.op = "collectGarbage" /\ ev'.out = "ok")]_vars

\* C15 witness: collectGarbage has just succeeded on a store whose cache
\* held an entry, and the cache is empty.
C15_Witness ==
    /\ ev.op = "collectGarbage"
    /\ ev.out = "ok"
    /\ ev.stage = "cached"
    /\ cache = {}

\* The ways processStderr ends on WRITE without sink, READ without source,
\* an unknown tag and a field of unknown type.
ProtocolOuts == {"nosink", "nosource", "unknown", "badfield"}

\* C18: in each of the four cases processStderr throws: the operation ends
\* at once with the protocol error, without reading a response, also when
\* it calls Connection::processStderr itself; only the daemon's ERROR is
\* returned (an operation that ignores the returned value reads on).  A
\* ConnectionHandle that held the connection has marked it bad: it is
\* destroyed and not in idle.
C18_ProtocolErrorsAreThrown ==
    /\ ev.drain \in ProtocolOuts =>
          /\ ev.out = "protocol"
          /\ ~ev.resp
          /\ ev.op \notin BareHandleOps =>
                (conns[ev.conn].st = "dead" /\ ev.conn \notin Elems(idle))
    /\ (ev.op = "narFromPath" /\ ev.drain = "error") => ev.resp

\* C18 witness: an operation through a ConnectionHandle has just ended on a
\* field of unknown type, and its connection is gone.
C18_Witness ==
    /\ ev.drain = "badfield"
    /\ ev.op = "isValidPath"
    /\ ev.out = "protocol"
    /\ conns[ev.conn].st = "dead"

\* C19: queryPathInfo turns a daemon error whose message contains
\* 'is not valid' into InvalidPath only against a daemon of minor < 17;
\* against a daemon of minor >= 17 the daemon's error reaches the caller
\* as a daemon error.
C19_SniffOnlyBelow17 ==
    (/\ ev.op = "queryPathInfo"
     /\ ev.drain = "error"
     /\ ev.conn # 0
     /\ conns[ev.conn].minor >= 17)
    => ev.out = "daemon"

\* C20: after queryPathInfo against a daemon of minor >= 17 read a
\* valid-bit of 0 and raised InvalidPath, the connection is alive and back
\* in idle.
C20_InvalidPathKeepsConnection ==
    (/\ ev.op = "queryPathInfo"
     /\ ev.out = "invalidpath"
     /\ ev.drain = "last")
    => /\ conns[ev.conn].st = "live"
       /\ ev.conn \in Elems(idle)

\* A frame of addCAToStore that has read the resulting path.
PathRead(f) == f.op = "addCAToStore" /\ f.pc \in {"qpi", "ret"}

\* C21: in addCAToStore against a daemon of minor < 25, on the text branch
\* as on the fixed-output branch, once the resulting path has been read the
\* frame holds no lease: the step that read it put the connection, alive,
\* at the back of idle and lowered inUse, and queryPathInfo runs above a
\* frame without lease, so it never waits for a connection of its own
\* caller.
C21_LeaseReleasedBeforeQueryPathInfo ==
    /\ [](\A t \in Threads : \A i \in 1..Len(stack[t]) :
            PathRead(stack[t][i]) =>
                /\ stack[t][i].lease = "none"
                /\ stack[t][i].conn = 0
                /\ stack[t][i].method \in {"text", "fixed"})
    /\ [][\A t \in Threads :
            (Running(t) /\ ~PathRead(Top(t)) /\ Len(stack'[t]) = Len(stack[t])
             /\ PathRead(TopOf(stack', t)))
            => /\ Top(t).lease = "CH"
               /\ idle' = Append(idle, Top(t).conn)
               /\ inUse' = inUse - 1
               /\ conns'[Top(t).conn].st = "live"]_vars

\* C21 witness: with pool capacity 1, queryPathInfo holds the pool's only
\* lease above a fixed-output addCAToStore that has given its own back.
C21_Witness ==
    /\ max = 1
    /\ Len(stack[1]) = 2
    /\ stack[1][1].op = "addCAToStore"
    /\ stack[1][1].method = "fixed"
    /\ stack[1][1].pc = "ret"
    /\ stack[1][2].op = "queryPathInfo"
    /\ stack[1][2].lease = "CH"
    /\ stack[2] = <<>>

\* The uploads in flight: the frames between incCapacity and decCapacity.
Windows(st) ==
    Cardinality(UNION {{<<t, i>> : i \in {j \in 1..Len(st[t]) : st[t][j].pc = "window"}} :
                       t \in Threads})

\* C22: the capacity is the configured one plus one for each fixed-output
\* upload that is streaming its payload: no step changes the capacity
\* other than entering the window (+1) and leaving it (-1), by the end of
\* the streaming, by EPIPE, by another error of the writer or by a failing
\* source; so after addCAToStore returned or threw the capacity is what it
\* was before the call.
C22_CapacityRestored ==
    /\ [](/\ max - Windows(stack) \in 1..MaxCapacity
          /\ \A t \in Threads : \A i \in 1..Len(stack[t]) :
                stack[t][i].pc = "window" =>
                    (stack[t][i].op = "addCAToStore" /\ stack[t][i].method = "fixed"))
    /\ [][max' - Windows(stack') = max - Windows(stack)]_vars

\* C22 witness: a fixed-output addCAToStore whose source called the store
\* during the upload has just ended with that call's exception, no upload
\* is in flight and the capacity is 1.
C22_Witness ==
    /\ ev.op = "addCAToStore"
    /\ ev.stage = "none"
    /\ ev.out \in {"protocol", "eof", "daemon"}
    /\ ev.drain = "none"
    /\ ev.wrote
    /\ ev.conn # 0
    /\ Windows(stack) = 0
    /\ max = 1

\* A step of thread t out of the frame it was running.
EndsOp(t) == Len(stack'[t]) = Len(stack[t]) - 1 /\ ev'.t = t /\ ev'.op = "addCAToStore"

\* C23: after EPIPE while the payload of a fixed-output addCAToStore was
\* sent, the next step of the thread is one processStderr that ends the
\* call: with the daemon's error when it read ERROR, with the EPIPE error
\* when it hit the end of file; after another SysError the next step ends
\* the call with that error and without processStderr.
C23_OneDrainAfterEpipe ==
    [][\A t \in Threads :
          /\ (At(t, "addCAToStore", "epipe") /\ stack'[t] # stack[t]) =>
                /\ EndsOp(t)
                /\ ev'.drain \in DrainOuts
                /\ ~ev'.resp
                /\ ev'.drain = "error" => ev'.out = "daemon"
                /\ ev'.drain = "eof" => ev'.out = "epipe"
          /\ (At(t, "addCAToStore", "syserror") /\ stack'[t] # stack[t]) =>
                /\ EndsOp(t)
                /\ ev'.drain = "none"
                /\ ev'.out = "syserror"]_vars

\* C23 witness: the drain after EPIPE hit the end of file and the caller
\* has received the EPIPE error.
C23_Witness ==
    /\ ev.op = "addCAToStore"
    /\ ev.out = "epipe"
    /\ ev.drain = "eof"

====
